---- MODULE Spec2Model ----
(***************************************************************************)
(* Model of the multibid module (src/unnamed/part_000): the configuration  *)
(* listener and validateMultibid, the addBidResponse hook (bid admission), *)
(* the getHighestCpmBidsFromBidPool hook (pool ranking) and the            *)
(* AUCTION_INIT reset.                                                     *)
(*                                                                         *)
(* JavaScript values that the code inspects with typeof / Array.isArray /  *)
(* truthiness are records [t, s, n, a]: t is the type tag, s the string    *)
(* payload, n the numeric payload, a the array payload.  Numbers are       *)
(* integers (cpm and floor values are whole currency units).               *)
(***************************************************************************)
EXTENDS Integers, Sequences, FiniteSets, TLC

VARIABLES
    cfg,            \* config.getConfig('multibid'): [t, entries]
    hasMultibid,    \* let hasMultibid
    multiConfig,    \* let multiConfig: bidder code -> [maxbids, prefix]
    multibidUnits,  \* let multibidUnits: <<adUnitCode, bidderCode>> -> [ads, maxReached]
    bids,           \* every bid object handed to addBidResponseHook, in arrival order
    bidsReceived,   \* the host's bid pool: indices into bids, in the order forwarded
    uid,            \* number of identifiers drawn from getUniqueIdentifierStr
    roundStart,     \* Len(bids) when AUCTION_INIT last fired
    cleanRound,     \* no setConfig call since the first bid of the current round
    lastConf,       \* argument of the last setConfig({multibid: ...}) of the page
    lastCheck,      \* what validateMultibid returned to the listener in that call
    ranked,         \* what the last targetBidPoolHook call handed to the host
    bidderRequests, \* what the last adjustBidderRequestsHook call was given and handed on
    auctionIds,     \* auctionIds[i]: the auction that bids[i] belongs to (overlapping auctions)
    auctionCount,   \* number of AUCTION_INIT events counted for auctionIds
    emitted,        \* the events emitted to the analytics adapters, in order
    eventQueue,     \* part_001: let eventQueue, auctionId -> events
    adUnitCodesCache,       \* part_001: let adUnitCodesCache, auctionId -> ad unit codes
    requests,               \* part_001: the bodies given to ajax, in order
    moduleEventQueue,       \* modules/setupadAnalyticsAdapter.js: let eventQueue
    moduleAdUnitCodesCache, \* modules/setupadAnalyticsAdapter.js: let adUnitCodesCache
    moduleRequests          \* modules/setupadAnalyticsAdapter.js: the bodies given to ajax

\* The state of the multibid module and what the host keeps around it.
multibidVars == <<cfg, hasMultibid, multiConfig, multibidUnits, bids, bidsReceived, uid,
                  roundStart, cleanRound, lastConf, lastCheck, ranked>>

\* The bidder requests last seen by adjustBidderRequestsHook.
limiterVars == <<bidderRequests>>

\* The auction of every bid.
overlapVars == <<auctionIds, auctionCount>>

\* The state of the two analytics adapters.
analyticsVars == <<emitted, eventQueue, adUnitCodesCache, requests,
                   moduleEventQueue, moduleAdUnitCodesCache, moduleRequests>>

\* What the configuration listener and the bid hooks do not touch.
hostVars == <<limiterVars, overlapVars, analyticsVars>>

vars == <<multibidVars, hostVars>>

\* ---------------------------------------------------------------- bounds

\* Longest list of core entries in one setConfig call.
MaxEntries == 3

\* Number of bid objects that arrive in one behaviour.
MaxBids == 3

\* Longest list of bidder requests in one adjustBidderRequestsHook call.
MaxRequests == 2

\* Number of events emitted to the analytics adapters in one behaviour.
MaxEvents == 4

\* Number of auctions that are started in one behaviour with overlapping
\* auctions.
MaxAuctions == 2

\* Number of bid objects that arrive in one behaviour in which two bidders
\* with a prefix send two bids each.
MaxSharedBids == 4

\* ------------------------------------------------------- program constants

\* The lower and upper end of the accepted maxBids range.
MinMaxBids == 1

MaxMaxBids == 9

\* ------------------------------------------------------------- JS values

JsUndefined == [t |-> "undefined", s |-> "", n |-> 0, a |-> << >>]

JsString(x) == [t |-> "string", s |-> x, n |-> 0, a |-> << >>]

JsNumber(k) == [t |-> "number", s |-> "", n |-> k, a |-> << >>]

JsArray(xs) == [t |-> "array", s |-> "", n |-> 0, a |-> xs]

\* ToBoolean: undefined, "" and 0 are falsy; arrays (also empty ones) are truthy.
Truthy(v) ==
    CASE v.t = "undefined" -> FALSE
      [] v.t = "string" -> v.s # ""
      [] v.t = "number" -> v.n # 0
      [] OTHER -> TRUE

\* The property key a value becomes in multiConfig[entry.bidder].
PropertyKey(v) == IF v.t = "number" THEN ToString(v.n) ELSE v.s

\* A configuration entry as the page writes it.  targetBiddercodePrefix is a
\* string; the code only tests its truthiness, so "" stands for "not given".
MakeEntry(bidder, bidders, maxBids, prefix) ==
    [bidder |-> bidder, bidders |-> bidders, maxBids |-> maxBids,
     targetBiddercodePrefix |-> prefix]

\* The value of the multibid topic: undefined, a non-array object, or an array.
ConfUndefined == [t |-> "undefined", entries |-> << >>]

ConfObject == [t |-> "object", entries |-> << >>]

ConfArray(entries) == [t |-> "array", entries |-> entries]

EmptyMultiConfig == [k \in {} |-> [maxbids |-> 0, prefix |-> ""]]

EmptyUnits == [k \in {} |-> [ads |-> << >>, maxReached |-> FALSE, floor |-> 0]]

\* ------------------------------------------------------------ ConfigStore

\* resetMultiConfig: hasMultibid = false; multiConfig = {}
resetMultiConfig(st) == [st EXCEPT !.hasMultibid = FALSE, !.multiConfig = EmptyMultiConfig]

\* The filter callback of validateMultibid: FALSE when the entry is dropped.
HasBidderOrBidders(entry) ==
    ~ ( (~Truthy(entry.bidder) \/ entry.bidder.t # "string")
        /\ (~Truthy(entry.bidders) \/ entry.bidders.t # "array") )

\* The condition of the map callback: maxBids has to be coerced.
MaxBidsOutOfRange(entry) ==
    \/ entry.maxBids.t # "number"
    \/ entry.maxBids.n < MinMaxBids
    \/ entry.maxBids.n > MaxMaxBids

\* CoerceMaxBids with the upper clamp lost: every coerced entry gets the minimum.
CoerceMaxBids_AlwaysMin(entry) ==
    IF MaxBidsOutOfRange(entry)
    THEN [entry EXCEPT !.maxBids = JsNumber(MinMaxBids)]
    ELSE entry

\* The map callback of validateMultibid: the entry with maxBids coerced.
CoerceMaxBids(entry) ==
    IF MaxBidsOutOfRange(entry)
    THEN [entry EXCEPT !.maxBids =
            IF entry.maxBids.t # "number" \/ entry.maxBids.n < MinMaxBids
            THEN JsNumber(MinMaxBids) ELSE JsNumber(MaxMaxBids)]
    ELSE entry

\* Duplicate with a malformed entry fatal to the entries that follow it.
Duplicate_StopAtMalformed(conf) ==
    LET bad == {i \in 1..Len(conf) : ~HasBidderOrBidders(conf[i])}
        kept == IF bad = {} THEN conf
                ELSE SubSeq(conf, 1, (CHOOSE i \in bad : \A j \in bad : i <= j) - 1)
    IN  [i \in 1..Len(kept) |-> CoerceMaxBids(kept[i])]

\* conf.filter(...).map(...): the corrected copy ("duplicate").
Duplicate(conf) ==
    LET kept == SelectSeq(conf, HasBidderOrBidders)
    IN  [i \in 1..Len(kept) |-> CoerceMaxBids(kept[i])]

\* The value of check when validateMultibid returns.
Check(conf) ==
    /\ \A i \in 1..Len(conf) : HasBidderOrBidders(conf[i])
    /\ \A i \in 1..Len(conf) : ~MaxBidsOutOfRange(conf[i])

\* One iteration of conf.multibid.forEach in the listener.
StoreEntry(mc, entry) ==
    LET limit == [maxbids |-> entry.maxBids.n, prefix |-> entry.targetBiddercodePrefix]
        keys == IF Truthy(entry.bidder)
                THEN {PropertyKey(entry.bidder)}
                ELSE {entry.bidders.a[i] : i \in 1..Len(entry.bidders.a)}
    IN  [k \in DOMAIN mc \cup keys |-> IF k \in keys THEN limit ELSE mc[k]]

RECURSIVE StoreEntries(_, _)
StoreEntries(mc, entries) ==
    IF entries = << >> THEN mc
    ELSE StoreEntries(StoreEntry(mc, Head(entries)), Tail(entries))

RECURSIVE setConfig(_, _)

\* validateMultibid(conf): the returned check, and the state after its
\* config.setConfig({multibid: duplicate}) when check is false.
validateMultibid(st, conf) ==
    [check |-> Check(conf),
     st |-> IF ~Check(conf) THEN setConfig(st, ConfArray(Duplicate(conf))) ELSE st]

\* The listener registered with config.getConfig(MODULE_NAME, ...).
multibidListener(st, multibid) ==
    IF multibid.t # "array" \/ Len(multibid.entries) = 0
    THEN st
    ELSE LET v == validateMultibid(st, multibid.entries)
         IN  IF ~v.check
             THEN v.st
             ELSE [resetMultiConfig(v.st) EXCEPT
                      !.hasMultibid = TRUE,
                      !.multiConfig = StoreEntries(resetMultiConfig(v.st).multiConfig,
                                                   multibid.entries)]

\* config.setConfig({multibid: value}): the topic is stored, then its
\* subscribers are called synchronously.
setConfig(st, multibid) == multibidListener([st EXCEPT !.cfg = multibid], multibid)

\* What the outer listener call saw validateMultibid return.
ReportedCheck(multibid) ==
    IF multibid.t # "array" \/ Len(multibid.entries) = 0 THEN "not called"
    ELSE IF Check(multibid.entries) THEN "true" ELSE "false"

ConfigState == [cfg |-> cfg, hasMultibid |-> hasMultibid, multiConfig |-> multiConfig]

\* The page calls pbjs.setConfig({multibid: conf}).
SetConfig(conf) ==
    \E st \in {setConfig(ConfigState, conf)} :
        /\ cfg' = st.cfg
        /\ hasMultibid' = st.hasMultibid
        /\ multiConfig' = st.multiConfig
        /\ lastConf' = conf
        /\ lastCheck' = ReportedCheck(conf)
        /\ cleanRound' = (cleanRound /\ roundStart = Len(bids))
        /\ UNCHANGED <<multibidUnits, bids, bidsReceived, uid, roundStart, ranked>>

\* ----------------------------------------------------------- BidAdmission

\* A bid object as it reaches the hook.  floorValue 0 stands for no floorData
\* (the code tests !floor); adpod stands for video.context === 'adpod'; bidder
\* is the host's own copy of the bidder code.  "" stands for a property that
\* is not set.  id is the object's identity (its index in bids); reason is the
\* diagnostic the hook emitted for the bid.
NewBid(id, adUnitCode, bidderCode, cpm, floorValue, adpod) ==
    [id |-> id, adUnitCode |-> adUnitCode, bidderCode |-> bidderCode, bidder |-> bidderCode,
     cpm |-> cpm, floorValue |-> floorValue, adpod |-> adpod,
     requestId |-> "req-" \o adUnitCode \o "-" \o bidderCode,
     originalRequestId |-> "", originalBidder |-> "", multibidPrefix |-> "",
     targetingBidder |-> "", reason |-> ""]

\* getUniqueIdentifierStr(): the n-th identifier drawn.
getUniqueIdentifierStr(n) == "uid-" \o ToString(n)

\* deepSetValue(obj, path, value): the value at the path is replaced.
deepSetValue(units, key, value) ==
    [k \in DOMAIN units \cup {key} |-> IF k = key THEN value ELSE units[k]]

\* if (!config.getConfig('multibid')) resetMultiConfig();
LazyReset(st) == IF st.cfg.t = "undefined" THEN resetMultiConfig(st) ELSE st

\* Lines 156-157: multibidPrefix and originalBidder are set on the bid.
MarkMultibid(st, bid) ==
    [bid EXCEPT !.multibidPrefix = IF st.multiConfig[bid.bidderCode].prefix # ""
                                   THEN st.multiConfig[bid.bidderCode].prefix ELSE @,
                !.originalBidder = bid.bidderCode]

\* The test of line 162 with the floor it reads.
FloorPassed(floor, bid) == floor = 0 \/ floor <= bid.cpm

\* The test of line 162: the bid is pushed into the stored bids.
MayPush(unit, floor, bid) == ~unit.maxReached /\ FloorPassed(floor, bid)

\* Variant of PushBid without line 171: maxReached is never set on a push.
PushBid_NeverMaxReached(st, unit, bid, id, n) ==
    LET ads == Append(unit.ads, id)
        prefix == st.multiConfig[bid.bidderCode].prefix
    IN  [bid |-> [bid EXCEPT !.originalRequestId = bid.requestId,
                             !.requestId = getUniqueIdentifierStr(n),
                             !.targetingBidder = IF prefix # ""
                                                 THEN prefix \o ToString(Len(ads)) ELSE @],
         unit |-> [unit EXCEPT !.ads = ads]]

\* Lines 163-171 for a bid that is pushed: the bid and the unit afterwards.
PushBid(st, unit, bid, id, n) ==
    LET ads == Append(unit.ads, id)
        prefix == st.multiConfig[bid.bidderCode].prefix
    IN  [bid |-> [bid EXCEPT !.originalRequestId = bid.requestId,
                             !.requestId = getUniqueIdentifierStr(n),
                             !.targetingBidder = IF prefix # ""
                                                 THEN prefix \o ToString(Len(ads)) ELSE @],
         unit |-> [unit EXCEPT !.ads = ads,
                               !.maxReached = IF Len(ads) = st.multiConfig[bid.bidderCode].maxbids
                                              THEN TRUE ELSE @]]

\* Variant of lines 178-181 that starts from an empty multibidUnits, so that
\* the first bid of one key discards what is stored for the other keys.
FirstBid_ClearsOtherKeys(st, units, key, bid, id) ==
    LET withAds == deepSetValue(EmptyUnits, key,
                       [ads |-> <<id>>, maxReached |-> FALSE, floor |-> 0])
    IN  IF Len(withAds[key].ads) = st.multiConfig[bid.bidderCode].maxbids
        THEN [withAds EXCEPT ![key].maxReached = TRUE]
        ELSE withAds

\* Lines 178-181 for the first bid of its ad unit and bidder.
FirstBid(st, units, key, bid, id) ==
    LET withFloor == IF bid.floorValue # 0
                     THEN deepSetValue(units, key,
                              [ads |-> << >>, maxReached |-> FALSE, floor |-> bid.floorValue])
                     ELSE units
        withAds == deepSetValue(withFloor, key,
                       [ads |-> <<id>>, maxReached |-> FALSE, floor |-> 0])
    IN  IF Len(withAds[key].ads) = st.multiConfig[bid.bidderCode].maxbids
        THEN [withAds EXCEPT ![key].maxReached = TRUE]
        ELSE withAds

\* The diagnostic of line 175.
FilterReason(unit) == IF unit.maxReached THEN "max limit reached" ELSE "below floor"

\* Variant of addBidResponseHook whose last branch marks the bid of a bidder
\* without limit with originalBidder before handing it on.
addBidResponseHook_MarksUnlimited(st0, units, adUnitCode, bid0, id, n) ==
    LET floor == bid0.floorValue
        st == LazyReset(st0)
        key == <<adUnitCode, bid0.bidderCode>>
        limited == st.hasMultibid /\ bid0.bidderCode \in DOMAIN st.multiConfig
    IN  IF limited /\ bid0.adpod
        THEN [st |-> st, units |-> units, bid |-> bid0, forwarded |-> TRUE, uid |-> n]
        ELSE IF limited
        THEN LET bid == MarkMultibid(st, bid0)
             IN  IF key \in DOMAIN units
                 THEN IF MayPush(units[key], floor, bid)
                      THEN LET p == PushBid(st, units[key], bid, id, n + 1)
                           IN  [st |-> st, units |-> [units EXCEPT ![key] = p.unit],
                                bid |-> p.bid, forwarded |-> TRUE, uid |-> n + 1]
                      ELSE [st |-> st, units |-> units,
                            bid |-> [bid EXCEPT !.reason = FilterReason(units[key])],
                            forwarded |-> FALSE, uid |-> n]
                 ELSE [st |-> st, units |-> FirstBid(st, units, key, bid, id),
                       bid |-> bid, forwarded |-> TRUE, uid |-> n]
        ELSE [st |-> st, units |-> units,
              bid |-> [bid0 EXCEPT !.originalBidder = bid0.bidderCode],
              forwarded |-> TRUE, uid |-> n]

\* Variant of addBidResponseHook without the adpod branch of lines 152-153.
addBidResponseHook_NoAdpodBranch(st0, units, adUnitCode, bid0, id, n) ==
    LET floor == bid0.floorValue
        st == LazyReset(st0)
        key == <<adUnitCode, bid0.bidderCode>>
        limited == st.hasMultibid /\ bid0.bidderCode \in DOMAIN st.multiConfig
    IN  IF limited
        THEN LET bid == MarkMultibid(st, bid0)
             IN  IF key \in DOMAIN units
                 THEN IF MayPush(units[key], floor, bid)
                      THEN LET p == PushBid(st, units[key], bid, id, n + 1)
                           IN  [st |-> st, units |-> [units EXCEPT ![key] = p.unit],
                                bid |-> p.bid, forwarded |-> TRUE, uid |-> n + 1]
                      ELSE [st |-> st, units |-> units,
                            bid |-> [bid EXCEPT !.reason = FilterReason(units[key])],
                            forwarded |-> FALSE, uid |-> n]
                 ELSE [st |-> st, units |-> FirstBid(st, units, key, bid, id),
                       bid |-> bid, forwarded |-> TRUE, uid |-> n]
        ELSE [st |-> st, units |-> units, bid |-> bid0, forwarded |-> TRUE, uid |-> n]

\* addBidResponseHook(fn, adUnitCode, bid, reject): the outcome as a record of
\* the config state, the units, the bid, whether fn was called and uid.
addBidResponseHook(st0, units, adUnitCode, bid0, id, n) ==
    LET floor == bid0.floorValue
        st == LazyReset(st0)
        key == <<adUnitCode, bid0.bidderCode>>
        limited == st.hasMultibid /\ bid0.bidderCode \in DOMAIN st.multiConfig
    IN  IF limited /\ bid0.adpod
        THEN [st |-> st, units |-> units, bid |-> bid0, forwarded |-> TRUE, uid |-> n]
        ELSE IF limited
        THEN LET bid == MarkMultibid(st, bid0)
             IN  IF key \in DOMAIN units
                 THEN IF MayPush(units[key], floor, bid)
                      THEN LET p == PushBid(st, units[key], bid, id, n + 1)
                           IN  [st |-> st, units |-> [units EXCEPT ![key] = p.unit],
                                bid |-> p.bid, forwarded |-> TRUE, uid |-> n + 1]
                      ELSE [st |-> st, units |-> units,
                            bid |-> [bid EXCEPT !.reason = FilterReason(units[key])],
                            forwarded |-> FALSE, uid |-> n]
                 ELSE [st |-> st, units |-> FirstBid(st, units, key, bid, id),
                       bid |-> bid, forwarded |-> TRUE, uid |-> n]
        ELSE [st |-> st, units |-> units, bid |-> bid0, forwarded |-> TRUE, uid |-> n]

\* Variant of AddBidResponse in which the host receives the filtered bids too.
AddBidResponse_ForwardsFiltered(adUnitCode, bidderCode, cpm, floorValue, adpod) ==
    /\ Len(bids) < MaxBids
    /\ \E r \in {addBidResponseHook(ConfigState, multibidUnits, adUnitCode,
                     NewBid(Len(bids) + 1, adUnitCode, bidderCode, cpm, floorValue, adpod),
                     Len(bids) + 1, uid)} :
          /\ hasMultibid' = r.st.hasMultibid
          /\ multiConfig' = r.st.multiConfig
          /\ multibidUnits' = r.units
          /\ bids' = Append(bids, r.bid)
          /\ bidsReceived' = Append(bidsReceived, Len(bids) + 1)
          /\ uid' = r.uid
    /\ UNCHANGED <<cfg, roundStart, cleanRound, lastConf, lastCheck, ranked>>

\* A bid response reaches the addBidResponse hook chain, as one of at most
\* most bid responses.
AddBidResponseOf(most, adUnitCode, bidderCode, cpm, floorValue, adpod) ==
    /\ Len(bids) < most
    /\ \E r \in {addBidResponseHook(ConfigState, multibidUnits, adUnitCode,
                     NewBid(Len(bids) + 1, adUnitCode, bidderCode, cpm, floorValue, adpod),
                     Len(bids) + 1, uid)} :
          /\ hasMultibid' = r.st.hasMultibid
          /\ multiConfig' = r.st.multiConfig
          /\ multibidUnits' = r.units
          /\ bids' = Append(bids, r.bid)
          /\ bidsReceived' = IF r.forwarded THEN Append(bidsReceived, Len(bids) + 1)
                             ELSE bidsReceived
          /\ uid' = r.uid
    /\ UNCHANGED <<cfg, roundStart, cleanRound, lastConf, lastCheck, ranked>>

\* A bid response reaches the addBidResponse hook chain.
AddBidResponse(adUnitCode, bidderCode, cpm, floorValue, adpod) ==
    AddBidResponseOf(MaxBids, adUnitCode, bidderCode, cpm, floorValue, adpod)

\* -------------------------------------------------------- AuctionLifecycle

\* Variant of resetMultibidUnits that leaves the stored units as they are.
resetMultibidUnits_Keep(units) == units

\* resetMultibidUnits: multibidUnits = {}
resetMultibidUnits(units) == EmptyUnits

\* Variant of the AUCTION_INIT handler that leaves multibidUnits as it is.
AuctionInit_NoReset ==
    /\ roundStart' = Len(bids)
    /\ cleanRound' = TRUE
    /\ UNCHANGED <<cfg, hasMultibid, multiConfig, multibidUnits, bids, bidsReceived, uid,
                   lastConf, lastCheck, ranked>>

\* EVENTS.AUCTION_INIT fires: the handler registered in init() runs.
AuctionInit ==
    /\ multibidUnits' = resetMultibidUnits(multibidUnits)
    /\ roundStart' = Len(bids)
    /\ cleanRound' = TRUE
    /\ UNCHANGED <<cfg, hasMultibid, multiConfig, bids, bidsReceived, uid,
                   lastConf, lastCheck, ranked>>

\* -------------------------------------------------------------- PoolRanker

\* groupBy(xs, key): the distinct keys in the order Object.keys lists them
\* (first occurrence), for keys that are not integer-like strings.
KeysInOrder(ks) ==
    LET firsts == SelectSeq([p \in 1..Len(ks) |-> p],
                            LAMBDA p : \A q \in 1..(p - 1) : ks[q] # ks[p])
    IN  [j \in 1..Len(firsts) |-> ks[firsts[j]]]

\* Array.prototype.sort with a comparator that is a strict weak order: stable.
\* cmp[p, q] is the comparator's result for (xs[p], xs[q]); a result below 0
\* puts xs[p] before xs[q].
StableSort(xs, cmp) ==
    LET n == Len(xs)
        rank(p) == 1 + Cardinality({q \in 1..n : cmp[q, p] < 0})
                     + Cardinality({q \in 1..(p - 1) : cmp[q, p] >= 0 /\ cmp[p, q] >= 0})
    IN  [r \in 1..n |-> xs[CHOOSE p \in 1..n : rank(p) = r]]

\* Variant of the comparator of line 229 that sorts by ascending cpm.
CompareCpmDesc_Ascending(bidA, bidB) ==
    IF bidA.cpm < bidB.cpm THEN -1 ELSE IF bidA.cpm > bidB.cpm THEN 1 ELSE 0

\* The comparator of line 229.
CompareCpmDesc(bidA, bidB) ==
    IF bidA.cpm > bidB.cpm THEN -1 ELSE IF bidA.cpm < bidB.cpm THEN 1 ELSE 0

\* The comparator of line 244 with dealPrioritization off: b.cpm - a.cpm.
CompareBucketCpm(a, b) == b.cpm - a.cpm

\* Variant of sortByMultibid that never reorders.
sortByMultibid_NoOp(a, b) == 0

\* sortByMultibid(a, b)
sortByMultibid(a, b) ==
    IF a.bidder # a.bidderCode /\ b.bidder = b.bidderCode THEN 1
    ELSE IF a.bidder = a.bidderCode /\ b.bidder # b.bidderCode THEN -1
    ELSE 0

\* The host's highestCpmCallback: of two bids the one with the higher cpm.
highestCpmCallback(previous, current) ==
    IF previous.cpm < current.cpm THEN current ELSE previous

\* The side effect of the comparator of lines 227-228 on a bid it is called
\* with: bidderCode goes back to originalBidder.  The comparator runs only when
\* the array being sorted has at least two elements.
RestoredCode(bid, groupSize) ==
    IF groupSize >= 2 /\ bid.originalBidder # "" /\ bid.originalBidder # bid.bidderCode
    THEN bid.originalBidder
    ELSE bid.bidderCode

\* Variant of the map callback that appends index instead of index + 1.
AliasedCode_FromIndex(mc, code, index) ==
    IF /\ code \in DOMAIN mc
       /\ mc[code].prefix # ""
       /\ index # 0
       /\ index < mc[code].maxbids
    THEN mc[code].prefix \o ToString(index)
    ELSE code

\* The map callback of lines 230-237: the bidderCode of the bid at index
\* (0-based) of its sorted group.
AliasedCode(mc, code, index) ==
    IF /\ code \in DOMAIN mc
       /\ mc[code].prefix # ""
       /\ index # 0
       /\ index < mc[code].maxbids
    THEN mc[code].prefix \o ToString(index + 1)
    ELSE code

\* Lines 223-238 for one group of groupBy(buckets[slotId], 'originalBidder'):
\* the group's bids, sorted, restored and aliased.
AdjustGroup(mc, group) ==
    LET sorted == StableSort(group, [p, q \in 1..Len(group) |->
                                        CompareCpmDesc(group[p], group[q])])
    IN  [r \in 1..Len(sorted) |->
            [sorted[r] EXCEPT !.bidderCode =
                AliasedCode(mc, RestoredCode(sorted[r], Len(sorted)), r - 1)]]

RECURSIVE Flatten(_)
Flatten(seqs) == IF seqs = << >> THEN << >> ELSE Head(seqs) \o Flatten(Tail(seqs))

RECURSIVE Reduce(_, _)
Reduce(acc, xs) ==
    IF xs = << >> THEN acc ELSE Reduce(highestCpmCallback(acc, Head(xs)), Tail(xs))

\* Lines 223-238 for one ad unit: adjustedBids.
AdjustedBids(mc, bucket) ==
    LET names == KeysInOrder([p \in 1..Len(bucket) |-> bucket[p].originalBidder])
    IN  Flatten([g \in 1..Len(names) |->
            AdjustGroup(mc, SelectSeq(bucket, LAMBDA b : b.originalBidder = names[g]))])

\* Variant of lines 240-241 without the grouping and the reduction: every
\* adjusted bid is handed on.
BucketBids_NoReduce(adjustedBids) == adjustedBids

\* Lines 240-241 for one ad unit: bucketBids before any truncation.
BucketBids(adjustedBids) ==
    LET codes == KeysInOrder([p \in 1..Len(adjustedBids) |-> adjustedBids[p].bidderCode])
    IN  [c \in 1..Len(codes) |->
            LET sameCode == SelectSeq(adjustedBids, LAMBDA b : b.bidderCode = codes[c])
            IN  Reduce(Head(sameCode), Tail(sameCode))]

\* Lines 243-249: what one ad unit adds to modifiedBids.
TruncateBucket(bucketBids, adUnitBidLimit) ==
    IF adUnitBidLimit > 0
    THEN LET byCpm == StableSort(bucketBids, [p, q \in 1..Len(bucketBids) |->
                                       CompareBucketCpm(bucketBids[p], bucketBids[q])])
             sorted == StableSort(byCpm, [p, q \in 1..Len(byCpm) |->
                                       sortByMultibid(byCpm[p], byCpm[q])])
         IN  SubSeq(sorted, 1, IF adUnitBidLimit < Len(sorted) THEN adUnitBidLimit
                               ELSE Len(sorted))
    ELSE bucketBids

\* Variant of the reduce callback that returns result.concat(modifiedBids):
\* what the earlier ad units gave is kept in the accumulator as well.
RECURSIVE mergeBuckets_ConcatsResult(_, _, _)
mergeBuckets_ConcatsResult(result, modifiedBids, kept) ==
    IF kept = << >> THEN result
    ELSE LET pushed == modifiedBids \o Head(kept)
         IN  mergeBuckets_ConcatsResult(result \o pushed, pushed, Tail(kept))

\* The reduce of lines 220-252 over the ad units: modifiedBids (line 218) is
\* declared outside the callback and grows by what each ad unit keeps (lines
\* 246, 248); the callback returns a copy of it (line 251) whatever result
\* was; with no ad unit the initial value [] is the result.
RECURSIVE mergeBuckets(_, _, _)
mergeBuckets(result, modifiedBids, kept) ==
    IF kept = << >> THEN result
    ELSE LET pushed == modifiedBids \o Head(kept)
         IN  mergeBuckets(pushed, pushed, Tail(kept))

\* Lines 219-252: per ad unit (in Object.keys order) the adjusted bids, the
\* bucketBids and what is kept of them.
RankPool(mc, poolBids, adUnitBidLimit) ==
    LET slots == KeysInOrder([p \in 1..Len(poolBids) |-> poolBids[p].adUnitCode])
        adjusted == [sl \in 1..Len(slots) |->
                        AdjustedBids(mc, SelectSeq(poolBids,
                            LAMBDA b : b.adUnitCode = slots[sl]))]
        buckets == [sl \in 1..Len(slots) |-> BucketBids(adjusted[sl])]
    IN  [adjusted |-> Flatten(adjusted),
         winners |-> Flatten(buckets),
         out |-> mergeBuckets(<< >>, << >>,
                     [sl \in 1..Len(slots) |-> TruncateBucket(buckets[sl], adUnitBidLimit)])]

Ids(bidSeq) == [p \in 1..Len(bidSeq) |-> bidSeq[p].id]

\* targetBidPoolHook(fn, bidsReceived, highestCpmCallback, adUnitBidLimit): the
\* config state and the bid objects afterwards, and what fn is called with.
targetBidPoolHook(st0, bs, pool, adUnitBidLimit) ==
    LET st == LazyReset(st0)
        r == RankPool(st.multiConfig, [p \in 1..Len(pool) |-> bs[pool[p]]], adUnitBidLimit)
    IN  IF st.hasMultibid
        THEN [st |-> st,
              bids |-> [i \in 1..Len(bs) |->
                           IF \E p \in 1..Len(r.adjusted) : r.adjusted[p].id = i
                           THEN r.adjusted[CHOOSE p \in 1..Len(r.adjusted) : r.adjusted[p].id = i]
                           ELSE bs[i]],
              hasModified |-> TRUE, winners |-> Ids(r.winners), out |-> Ids(r.out)]
        ELSE [st |-> st, bids |-> bs, hasModified |-> FALSE, winners |-> pool, out |-> pool]

\* No bid of the pool carries an alias: the pool has not been ranked before.
PoolIsFresh == \A p \in 1..Len(bidsReceived) :
                   bids[bidsReceived[p]].bidderCode = bids[bidsReceived[p]].bidder

NotRanked == [called |-> FALSE, hasModified |-> FALSE, limit |-> 0, fresh |-> TRUE,
              pool |-> << >>, winners |-> << >>, out |-> << >>]

\* The host calls getHighestCpmBidsFromBidPool(bidsReceived, cb, adUnitBidLimit).
TargetBidPool(adUnitBidLimit) ==
    /\ \E r \in {targetBidPoolHook(ConfigState, bids, bidsReceived, adUnitBidLimit)} :
          /\ hasMultibid' = r.st.hasMultibid
          /\ multiConfig' = r.st.multiConfig
          /\ bids' = r.bids
          /\ ranked' = [called |-> TRUE, hasModified |-> r.hasModified,
                        limit |-> adUnitBidLimit, fresh |-> PoolIsFresh,
                        pool |-> bidsReceived, winners |-> r.winners, out |-> r.out]
    /\ UNCHANGED <<cfg, multibidUnits, bidsReceived, uid, roundStart, cleanRound,
                   lastConf, lastCheck>>

\* Between two calls of getHighestCpmBidsFromBidPool the host takes a bid out
\* of the pool (a bid that was used or has expired).
RemoveFromPool(p) ==
    /\ ranked.called
    /\ p \in 1..Len(bidsReceived)
    /\ bidsReceived' = [q \in 1..(Len(bidsReceived) - 1) |->
                            IF q < p THEN bidsReceived[q] ELSE bidsReceived[q + 1]]
    /\ UNCHANGED <<cfg, hasMultibid, multiConfig, multibidUnits, bids, uid, roundStart,
                   cleanRound, lastConf, lastCheck, ranked>>

\* ---------------------------------------------------------- RequestLimiter

\* A bidder request as adjustBidderRequestsHook sees it; bidLimit 0: no such
\* property.
BidderRequest(bidderCode) == [bidderCode |-> bidderCode, bidLimit |-> 0]

\* Variant of adjustBidderRequestsHook that hands on the annotated requests
\* only.
adjustBidderRequestsHook_DropsUnlimited(mc, reqs) ==
    LET annotated == [p \in 1..Len(reqs) |->
                         IF reqs[p].bidderCode \in DOMAIN mc
                         THEN [reqs[p] EXCEPT !.bidLimit = mc[reqs[p].bidderCode].maxbids]
                         ELSE reqs[p]]
    IN  SelectSeq(annotated, LAMBDA r : r.bidLimit # 0)

\* adjustBidderRequestsHook(fn, bidderRequests): the list fn is called with.
adjustBidderRequestsHook(mc, reqs) ==
    [p \in 1..Len(reqs) |->
        IF reqs[p].bidderCode \in DOMAIN mc
        THEN [reqs[p] EXCEPT !.bidLimit = mc[reqs[p].bidderCode].maxbids]
        ELSE reqs[p]]

NoBidderRequests ==
    [called |-> FALSE, active |-> FALSE, limits |-> EmptyMultiConfig,
     given |-> << >>, handed |-> << >>]

\* The host calls addBidderRequests(bidderRequests).
AdjustBidderRequests(reqs) ==
    /\ bidderRequests' = [called |-> TRUE, active |-> hasMultibid, limits |-> multiConfig,
                          given |-> reqs,
                          handed |-> adjustBidderRequestsHook(multiConfig, reqs)]
    /\ UNCHANGED <<multibidVars, overlapVars, analyticsVars>>

\* --------------------------------------------------------------- Analytics

\* No queue and no cache entry for any auction.
EmptyQueues == [a \in {} |-> << >>]

\* An event as track receives it.  args.auctionId "" stands for no auctionId;
\* args.isArray says that args.adUnitCodes is an array; args.timeouts holds the
\* elements of args when args itself is an array (BID_TIMEOUT); args.adUnitCode
\* is the ad unit of a BID_WON event.
Event(eventType, auctionId, isArray, adUnitCodes, timeouts, adUnitCode) ==
    [eventType |-> eventType,
     args |-> [auctionId |-> auctionId, isArray |-> isArray, adUnitCodes |-> adUnitCodes,
               timeouts |-> timeouts, adUnitCode |-> adUnitCode]]

\* handleAdUnitCodes(adUnitCodes), for ad units without a GPT slot.
handleAdUnitCodes(isArray, adUnitCodes) ==
    IF ~isArray THEN << >>
    ELSE [p \in 1..Len(adUnitCodes) |->
             [adUnitCode |-> adUnitCodes[p], gamPath |-> adUnitCodes[p]]]

\* JSON.stringify({data, adUnitCodes}): a property whose value is undefined is
\* left out; keys are the properties of the body.
Body(data, hasAdUnitCodes, adUnitCodes) ==
    [keys |-> IF hasAdUnitCodes THEN {"data", "adUnitCodes"} ELSE {"data"},
     data |-> data,
     adUnitCodes |-> IF hasAdUnitCodes THEN adUnitCodes ELSE << >>]

\* sendBidWonAnalytics(args): the body given to ajax (the same in both files).
sendBidWonAnalytics(args) ==
    Body(<<[eventType |-> "bidWon", args |-> args]>>, TRUE,
         handleAdUnitCodes(TRUE, <<args.adUnitCode>>))

\* part_001, pushAdUnitCodesToCache(auctionId, adUnitCodes): the cache afterwards.
pushAdUnitCodesToCache(cache, args) ==
    IF args.auctionId = "" \/ ~args.isArray THEN cache
    ELSE [a \in DOMAIN cache \cup {args.auctionId} |->
             IF a = args.auctionId THEN handleAdUnitCodes(TRUE, args.adUnitCodes)
             ELSE cache[a]]

\* part_001, pushToEventQueue(data): the queues afterwards.
pushToEventQueue(queue, data) ==
    LET auctionId == data.args.auctionId
    IN  IF auctionId = "" THEN queue
        ELSE [a \in DOMAIN queue \cup {auctionId} |->
                 IF a = auctionId
                 THEN Append(IF a \in DOMAIN queue THEN queue[a] ELSE << >>, data)
                 ELSE queue[a]]

\* delete object[key]
Delete(object, key) == [a \in DOMAIN object \ {key} |-> object[a]]

\* part_001, the BID_TIMEOUT case: args.forEach(pushToEventQueue).
RECURSIVE pushTimeouts(_, _)
pushTimeouts(queue, timeouts) ==
    IF timeouts = << >> THEN queue
    ELSE pushTimeouts(pushToEventQueue(queue, Event("bidTimeout", Head(timeouts), FALSE,
                                                    << >>, << >>, "")),
                      Tail(timeouts))


\* Variant of sendBatchAnalytics without line 103: the queue of the auction
\* is sent and stays.
sendBatchAnalytics_KeepsQueue(st, auctionId) ==
    IF auctionId \notin DOMAIN st.queue THEN st
    ELSE [queue |-> st.queue,
          cache |-> Delete(st.cache, auctionId),
          requests |-> Append(st.requests,
                          Body(st.queue[auctionId], auctionId \in DOMAIN st.cache,
                               IF auctionId \in DOMAIN st.cache THEN st.cache[auctionId]
                               ELSE << >>))]

\* part_001, sendBatchAnalytics(auctionId) on the adapter state [queue, cache,
\* requests].
sendBatchAnalytics(st, auctionId) ==
    IF auctionId \notin DOMAIN st.queue THEN st
    ELSE [queue |-> Delete(st.queue, auctionId),
          cache |-> Delete(st.cache, auctionId),
          requests |-> Append(st.requests,
                          Body(st.queue[auctionId], auctionId \in DOMAIN st.cache,
                               IF auctionId \in DOMAIN st.cache THEN st.cache[auctionId]
                               ELSE << >>))]

\* part_001, track({eventType, args}).
track(st, ev) ==
    CASE ev.eventType = "auctionInit" ->
             [st EXCEPT !.cache = pushAdUnitCodesToCache(st.cache, ev.args)]
      [] ev.eventType \in {"bidRequested", "bidResponse"} ->
             [st EXCEPT !.queue = pushToEventQueue(st.queue, ev)]
      [] ev.eventType = "bidTimeout" ->
             [st EXCEPT !.queue = pushTimeouts(st.queue, ev.args.timeouts)]
      [] ev.eventType = "auctionEnd" -> sendBatchAnalytics(st, ev.args.auctionId)
      [] ev.eventType = "bidWon" ->
             [st EXCEPT !.requests = Append(st.requests, sendBidWonAnalytics(ev.args))]
      [] OTHER -> st

\* modules/setupadAnalyticsAdapter.js, sendBatchAnalytics().
moduleSendBatchAnalytics(st) ==
    IF Len(st.queue) > 0
    THEN [queue |-> << >>, cache |-> << >>,
          requests |-> Append(st.requests, Body(st.queue, TRUE, st.cache))]
    ELSE st

\* modules/setupadAnalyticsAdapter.js, queueEvent(data).
queueEvent(st, data) ==
    LET pushed == [st EXCEPT !.queue = Append(st.queue, data)]
        cached == IF data.eventType = "auctionInit"
                  THEN [pushed EXCEPT !.cache = handleAdUnitCodes(data.args.isArray,
                                                                   data.args.adUnitCodes)]
                  ELSE pushed
    IN  IF data.eventType = "auctionEnd" THEN moduleSendBatchAnalytics(cached) ELSE cached

\* modules/setupadAnalyticsAdapter.js, track({eventType, args}).
moduleTrack(st, ev) ==
    CASE ev.eventType \in {"auctionInit", "bidRequested", "bidResponse", "bidderDone",
                           "noBid", "auctionEnd", "bidTimeout"} -> queueEvent(st, ev)
      [] ev.eventType = "bidWon" ->
             [st EXCEPT !.requests = Append(st.requests, sendBidWonAnalytics(ev.args))]
      [] OTHER -> st

\* events.emit(eventType, args) with an analytics adapter enabled: each of the
\* two adapters tracks the event.
Emit(ev) ==
    /\ Len(emitted) < MaxEvents
    /\ emitted' = Append(emitted, ev)
    /\ \E st \in {track([queue |-> eventQueue, cache |-> adUnitCodesCache,
                         requests |-> requests], ev)} :
          /\ eventQueue' = st.queue
          /\ adUnitCodesCache' = st.cache
          /\ requests' = st.requests
    /\ \E st \in {moduleTrack([queue |-> moduleEventQueue, cache |-> moduleAdUnitCodesCache,
                               requests |-> moduleRequests], ev)} :
          /\ moduleEventQueue' = st.queue
          /\ moduleAdUnitCodesCache' = st.cache
          /\ moduleRequests' = st.requests
    /\ UNCHANGED <<multibidVars, limiterVars, overlapVars>>

\* ------------------------------------------------------------ input sets

\* Entries that make up the lists of several entries.
CoreEntries ==
    { MakeEntry(JsString("A"), JsUndefined, JsNumber(2), "P"),
      MakeEntry(JsString("B"), JsUndefined, JsNumber(10), ""),
      MakeEntry(JsUndefined, JsArray(<<"A", "B">>), JsUndefined, "Q"),
      MakeEntry(JsUndefined, JsUndefined, JsNumber(2), "P"),
      MakeEntry(JsNumber(5), JsUndefined, JsNumber(0), "") }

\* The (bidder, bidders) shapes and maxBids values of single-entry lists.
IdShapes ==
    { <<JsString("A"), JsUndefined>>,
      <<JsUndefined, JsArray(<<"A", "B">>)>>,
      <<JsUndefined, JsArray(<< >>)>>,
      <<JsNumber(5), JsArray(<<"B">>)>>,
      <<JsUndefined, JsUndefined>>,
      <<JsNumber(5), JsUndefined>>,
      <<JsString(""), JsString("B")>> }

MaxBidsShapes ==
    { JsUndefined, JsString("3"), JsNumber(0), JsNumber(1), JsNumber(9), JsNumber(10) }

SingleEntries ==
    { MakeEntry(id[1], id[2], mb, p) : id \in IdShapes, mb \in MaxBidsShapes, p \in {"", "P"} }

ListsOf(S, n) == UNION { [1..k -> S] : k \in 1..n }

ConfInputs ==
    {ConfUndefined, ConfObject, ConfArray(<< >>)}
    \cup { ConfArray(l) : l \in ListsOf(CoreEntries, MaxEntries) }
    \cup { ConfArray(<<e>>) : e \in SingleEntries }

\* ------------------------------------------------------------------ Init

Init ==
    /\ cfg = ConfUndefined
    /\ hasMultibid = FALSE
    /\ multiConfig = EmptyMultiConfig
    /\ multibidUnits = EmptyUnits
    /\ bids = << >>
    /\ bidsReceived = << >>
    /\ uid = 0
    /\ roundStart = 0
    /\ cleanRound = TRUE
    /\ lastConf = ConfUndefined
    /\ lastCheck = "not called"
    /\ ranked = NotRanked
    /\ bidderRequests = NoBidderRequests
    /\ auctionIds = << >>
    /\ auctionCount = 0
    /\ emitted = << >>
    /\ eventQueue = EmptyQueues
    /\ adUnitCodesCache = EmptyQueues
    /\ requests = << >>
    /\ moduleEventQueue = << >>
    /\ moduleAdUnitCodesCache = << >>
    /\ moduleRequests = << >>

\* ---------------------------------------------- configuration on its own

NextConfig == \E conf \in ConfInputs : SetConfig(conf) /\ UNCHANGED hostVars

SpecConfig == Init /\ [][NextConfig]_vars

\* ------------------------------------------------- inputs of the auction

\* cpm, floorData.floorValue and video.context of a bid that arrives.
BidShape(cpm, floorValue, adpod) == [cpm |-> cpm, floorValue |-> floorValue, adpod |-> adpod]

BidInput(adUnitCode, bidderCode, shape) ==
    [adUnitCode |-> adUnitCode, bidderCode |-> bidderCode, shape |-> shape]

\* Admission: bidder A sends every shape of bid for ad unit s1 (without floor
\* data, with a floor of 2 and a cpm at or below it, as an adpod bid); ad unit
\* s2 and bidder B receive and send plain bids.
AdmissionShapes ==
    { BidShape(1, 0, FALSE), BidShape(1, 2, FALSE), BidShape(2, 2, FALSE),
      BidShape(1, 2, TRUE) }

AdmissionBids ==
    { BidInput("s1", "A", sh) : sh \in AdmissionShapes }
    \cup { BidInput("s2", "A", BidShape(1, 0, FALSE)), BidInput("s1", "B", BidShape(1, 0, FALSE)) }

AdmissionConfs ==
    { ConfArray(<<MakeEntry(JsString("A"), JsUndefined, JsNumber(2), "P")>>),
      ConfArray(<<MakeEntry(JsUndefined, JsArray(<<"A", "B">>), JsNumber(1), "")>>),
      ConfUndefined }

Next ==
    \/ \E conf \in AdmissionConfs : SetConfig(conf) /\ UNCHANGED hostVars
    \/ \E b \in AdmissionBids :
           /\ AddBidResponse(b.adUnitCode, b.bidderCode, b.shape.cpm, b.shape.floorValue,
                             b.shape.adpod)
           /\ UNCHANGED hostVars
    \/ AuctionInit /\ UNCHANGED hostVars

Spec == Init /\ [][Next]_vars

\* Ranking: the configuration is set before the auction, plain bids of three
\* values arrive for two ad units from two bidders, and once the responses are
\* in the host asks for the pool with a per-ad-unit limit of 0 (none), 1 or 2.
RankingBids ==
    { BidInput(k[1], k[2], BidShape(c, 0, FALSE)) :
          k \in {<<"s1", "A">>, <<"s1", "B">>, <<"s2", "A">>}, c \in {1, 2, 3} }

RankingConfs ==
    { ConfArray(<<MakeEntry(JsString("A"), JsUndefined, JsNumber(2), "P")>>),
      ConfArray(<<MakeEntry(JsUndefined, JsArray(<<"A", "B">>), JsNumber(3), "P")>>),
      ConfArray(<<MakeEntry(JsString("A"), JsUndefined, JsNumber(3), "")>>) }

AdUnitBidLimits == {0, 1, 2}

NextRank ==
    \/ \E conf \in RankingConfs : Len(bids) = 0 /\ SetConfig(conf) /\ UNCHANGED hostVars
    \/ \E b \in RankingBids :
           /\ ~ranked.called
           /\ AddBidResponse(b.adUnitCode, b.bidderCode, b.shape.cpm, b.shape.floorValue,
                             b.shape.adpod)
           /\ UNCHANGED hostVars
    \/ \E limit \in AdUnitBidLimits : TargetBidPool(limit) /\ UNCHANGED hostVars

SpecRank == Init /\ [][NextRank]_vars

\* Ranking a pool that changes: bids of A with and without the adpod context
\* and a bid of B, which has no limit; the host ranks the pool, takes bids out
\* of it and ranks what is left.
PoolBids ==
    { BidInput("s1", "A", BidShape(1, 0, FALSE)), BidInput("s1", "A", BidShape(3, 0, FALSE)),
      BidInput("s1", "A", BidShape(1, 0, TRUE)), BidInput("s1", "B", BidShape(2, 0, FALSE)) }

PoolConfs ==
    { ConfArray(<<MakeEntry(JsString("A"), JsUndefined, JsNumber(2), "P")>>),
      ConfArray(<<MakeEntry(JsString("A"), JsUndefined, JsNumber(3), "")>>) }

NextPool ==
    \/ \E conf \in PoolConfs : Len(bids) = 0 /\ SetConfig(conf) /\ UNCHANGED hostVars
    \/ \E b \in PoolBids :
           /\ ~ranked.called
           /\ AddBidResponse(b.adUnitCode, b.bidderCode, b.shape.cpm, b.shape.floorValue,
                             b.shape.adpod)
           /\ UNCHANGED hostVars
    \/ \E limit \in {0, 1} : TargetBidPool(limit) /\ UNCHANGED hostVars
    \/ \E p \in 1..MaxBids : RemoveFromPool(p) /\ UNCHANGED hostVars

SpecPool == Init /\ [][NextPool]_vars

\* Ranking a pool of several ad units: bids of A, which has a limit of 2 and a
\* prefix, for three ad units and a bid of B for the second; the host asks for
\* the pool with a per-ad-unit limit of 0 (none), 1 or 2.
SlotBids ==
    { BidInput("s1", "A", BidShape(1, 0, FALSE)), BidInput("s1", "A", BidShape(2, 0, FALSE)),
      BidInput("s2", "A", BidShape(1, 0, FALSE)), BidInput("s2", "B", BidShape(2, 0, FALSE)),
      BidInput("s3", "A", BidShape(1, 0, FALSE)) }

SlotConfs ==
    { ConfArray(<<MakeEntry(JsString("A"), JsUndefined, JsNumber(2), "P")>>),
      ConfArray(<<MakeEntry(JsUndefined, JsArray(<<"A", "B">>), JsNumber(2), "")>>) }

NextSlots ==
    \/ \E conf \in SlotConfs : Len(bids) = 0 /\ SetConfig(conf) /\ UNCHANGED hostVars
    \/ \E b \in SlotBids :
           /\ ~ranked.called
           /\ AddBidResponse(b.adUnitCode, b.bidderCode, b.shape.cpm, b.shape.floorValue,
                             b.shape.adpod)
           /\ UNCHANGED hostVars
    \/ \E limit \in AdUnitBidLimits : TargetBidPool(limit) /\ UNCHANGED hostVars

SpecSlots == Init /\ [][NextSlots]_vars

\* Ranking the bids of two bidders with prefixes: A and B configured through
\* one entry, so that they have the prefix in common, or through an entry
\* each; two bids of each bidder arrive for one ad unit and the host asks for
\* the pool without a per-ad-unit limit.
SharedBids ==
    { BidInput("s1", b, BidShape(c, 0, FALSE)) : b \in {"A", "B"}, c \in {1, 2} }

SharedConfs ==
    { ConfArray(<<MakeEntry(JsUndefined, JsArray(<<"A", "B">>), JsNumber(3), "P")>>),
      ConfArray(<<MakeEntry(JsString("A"), JsUndefined, JsNumber(3), "P"),
                  MakeEntry(JsString("B"), JsUndefined, JsNumber(3), "Q")>>) }

NextShared ==
    \/ \E conf \in SharedConfs : Len(bids) = 0 /\ SetConfig(conf) /\ UNCHANGED hostVars
    \/ \E b \in SharedBids :
           /\ ~ranked.called
           /\ AddBidResponseOf(MaxSharedBids, b.adUnitCode, b.bidderCode, b.shape.cpm,
                               b.shape.floorValue, b.shape.adpod)
           /\ UNCHANGED hostVars
    \/ TargetBidPool(0) /\ UNCHANGED hostVars

SpecShared == Init /\ [][NextShared]_vars

\* Overlapping auctions: every AUCTION_INIT starts one more auction, and a bid
\* that arrives belongs to any of the auctions started so far.
OverlapBids ==
    { BidInput("s1", "A", BidShape(1, 0, FALSE)), BidInput("s1", "B", BidShape(1, 0, FALSE)) }

OverlapConfs ==
    { ConfArray(<<MakeEntry(JsUndefined, JsArray(<<"A", "B">>), JsNumber(1), "")>>),
      ConfArray(<<MakeEntry(JsString("A"), JsUndefined, JsNumber(2), "P")>>) }

NextOverlap ==
    \/ \E conf \in OverlapConfs : Len(bids) = 0 /\ SetConfig(conf) /\ UNCHANGED hostVars
    \/ /\ auctionCount < MaxAuctions
       /\ AuctionInit
       /\ auctionCount' = auctionCount + 1
       /\ UNCHANGED <<auctionIds, limiterVars, analyticsVars>>
    \/ \E a \in 1..auctionCount : \E b \in OverlapBids :
           /\ AddBidResponse(b.adUnitCode, b.bidderCode, b.shape.cpm, b.shape.floorValue,
                             b.shape.adpod)
           /\ auctionIds' = Append(auctionIds, a)
           /\ UNCHANGED <<auctionCount, limiterVars, analyticsVars>>

SpecOverlap == Init /\ [][NextOverlap]_vars

\* ------------------------------------------- inputs of the bidder requests

\* Configurations under which requests go out: a limit of 2, a limit that is
\* coerced to 9, one entry for two bidders with the limit coerced to 1, an
\* entry that names no bidder at all (bidders: []), no entry that can be kept,
\* and the configuration taken away.
RequestConfs ==
    { ConfArray(<<MakeEntry(JsString("A"), JsUndefined, JsNumber(2), "P")>>),
      ConfArray(<<MakeEntry(JsString("B"), JsUndefined, JsNumber(10), "")>>),
      ConfArray(<<MakeEntry(JsUndefined, JsArray(<<"A", "B">>), JsUndefined, "Q")>>),
      ConfArray(<<MakeEntry(JsUndefined, JsArray(<< >>), JsNumber(2), "")>>),
      ConfArray(<<MakeEntry(JsUndefined, JsUndefined, JsNumber(2), "")>>),
      ConfUndefined }

\* The lists of bidder requests: up to MaxRequests requests to bidders A, B, C.
RequestLists ==
    {<< >>} \cup ListsOf({BidderRequest(c) : c \in {"A", "B", "C"}}, MaxRequests)

NextRequests ==
    \/ \E conf \in RequestConfs : SetConfig(conf) /\ UNCHANGED hostVars
    \/ \E reqs \in RequestLists : AdjustBidderRequests(reqs)

SpecRequests == Init /\ [][NextRequests]_vars

\* ------------------------------------------------ inputs of the analytics

AuctionInitEvent(auctionId, adUnitCodes) ==
    Event("auctionInit", auctionId, TRUE, adUnitCodes, << >>, "")

BidLevelEvent(eventType, auctionId) == Event(eventType, auctionId, FALSE, << >>, << >>, "")

AuctionEndEvent(auctionId) == Event("auctionEnd", auctionId, FALSE, << >>, << >>, "")

\* Events of two auctions a1 and a2: AUCTION_INIT with and without an array of
\* ad unit codes, bid-level events with and without auctionId, a BID_TIMEOUT
\* whose elements belong to both auctions, AUCTION_END, BID_WON, NO_BID.
Events ==
    { AuctionInitEvent("a1", <<"u1">>), AuctionInitEvent("a2", <<"u2">>),
      Event("auctionInit", "a1", FALSE, << >>, << >>, ""),
      BidLevelEvent("bidRequested", "a1"), BidLevelEvent("bidRequested", "a2"),
      BidLevelEvent("bidRequested", ""), BidLevelEvent("bidResponse", "a1"),
      Event("bidTimeout", "", FALSE, << >>, <<"a1", "a2">>, ""),
      AuctionEndEvent("a1"), AuctionEndEvent("a2"),
      Event("bidWon", "", FALSE, << >>, << >>, "u1"),
      BidLevelEvent("noBid", "a1") }

NextAnalytics == \E ev \in Events : Emit(ev)

SpecAnalytics == Init /\ [][NextAnalytics]_vars

\* ------------------------------------------------- claims on ConfigStore

\* The claims' reading of an entry: it names a participant when it has a
\* non-empty string id or a list of ids.
NamesParticipant(entry) ==
    (entry.bidder.t = "string" /\ entry.bidder.s # "") \/ entry.bidders.t = "array"

\* The keys an entry's limit is filed under: the single id when one is given,
\* else the ids of the list.
EntryParticipants(entry) ==
    IF Truthy(entry.bidder) THEN {PropertyKey(entry.bidder)}
    ELSE {entry.bidders.a[i] : i \in 1..Len(entry.bidders.a)}

\* The limit the claims expect for a maxBids value.
ClaimedLimit(mb) ==
    IF mb.t # "number" THEN 1
    ELSE IF mb.n < 1 THEN 1
    ELSE IF mb.n > 9 THEN 9
    ELSE mb.n

NeedsCoercion(mb) == mb.t # "number" \/ mb.n < 1 \/ mb.n > 9

\* Indices of the entries of es that name a participant, in increasing order.
KeptIndices(es) == SelectSeq([i \in 1..Len(es) |-> i], LAMBDA i : NamesParticipant(es[i]))

\* Entry i of es is the last kept entry that names participant k.
LastNaming(es, i, k) ==
    /\ NamesParticipant(es[i])
    /\ k \in EntryParticipants(es[i])
    /\ ~ \E j \in (i + 1)..Len(es) : NamesParticipant(es[j]) /\ k \in EntryParticipants(es[j])

\* The page's last setConfig call passed an array.  No other operation changes
\* the configuration while the multibid topic holds an array.
AfterSetConfigOfArray == lastConf.t = "array"

\* C5: after setConfig, every entry that names a participant has its limit
\* stored as 1 when maxBids is missing, not a number or below 1, as 9 when it is
\* above 9 and unchanged when it is in range (for each participant, the last
\* entry naming it counts); and when an entry had to be coerced validateMultibid
\* returned false and the configuration in force holds only in-range limits.
C5_LimitsClamped ==
    AfterSetConfigOfArray =>
        LET es == lastConf.entries
            idx == KeptIndices(es)
        IN  /\ \A i \in 1..Len(es) : \A k \in EntryParticipants(es[i]) :
                   LastNaming(es, i, k) =>
                       /\ hasMultibid
                       /\ k \in DOMAIN multiConfig
                       /\ multiConfig[k].maxbids = ClaimedLimit(es[i].maxBids)
            /\ (\E i \in 1..Len(es) : NamesParticipant(es[i]) /\ NeedsCoercion(es[i].maxBids)) =>
                   /\ lastCheck = "false"
                   /\ cfg.t = "array"
                   /\ Len(cfg.entries) = Len(idx)
                   /\ \A j \in 1..Len(idx) :
                          cfg.entries[j].maxBids = JsNumber(ClaimedLimit(es[idx[j]].maxBids))

\* C5 witness: a call with an entry above the range and an entry without
\* maxBids, both stored clamped.
C5_Witness ==
    /\ AfterSetConfigOfArray
    /\ \E i, j \in 1..Len(lastConf.entries) :
          /\ NamesParticipant(lastConf.entries[i])
          /\ lastConf.entries[i].maxBids = JsNumber(10)
          /\ \E k \in EntryParticipants(lastConf.entries[i]) :
                 k \in DOMAIN multiConfig /\ multiConfig[k].maxbids = 9
          /\ NamesParticipant(lastConf.entries[j])
          /\ lastConf.entries[j].maxBids = JsUndefined
          /\ \E k \in EntryParticipants(lastConf.entries[j]) :
                 k \in DOMAIN multiConfig /\ multiConfig[k].maxbids = 1
    /\ lastCheck = "false"

\* C6: when a call holds an entry that names no participant, validateMultibid
\* returns false, the configuration written back is exactly the other entries
\* in their original order (ids and prefix untouched), and each of them is in
\* force: its participants have its limit and prefix.
C6_MalformedEntryDroppedAlone ==
    (AfterSetConfigOfArray /\ \E i \in 1..Len(lastConf.entries) : ~NamesParticipant(lastConf.entries[i])) =>
        LET es == lastConf.entries
            idx == KeptIndices(es)
        IN  /\ lastCheck = "false"
            /\ cfg.t = "array"
            /\ Len(cfg.entries) = Len(idx)
            /\ \A j \in 1..Len(idx) :
                   /\ cfg.entries[j].bidder = es[idx[j]].bidder
                   /\ cfg.entries[j].bidders = es[idx[j]].bidders
                   /\ cfg.entries[j].targetBiddercodePrefix = es[idx[j]].targetBiddercodePrefix
                   /\ cfg.entries[j].maxBids.n = ClaimedLimit(es[idx[j]].maxBids)
            /\ \A i \in 1..Len(es) : \A k \in EntryParticipants(es[i]) :
                   LastNaming(es, i, k) =>
                       /\ hasMultibid
                       /\ k \in DOMAIN multiConfig
                       /\ multiConfig[k] = [maxbids |-> ClaimedLimit(es[i].maxBids),
                                            prefix |-> es[i].targetBiddercodePrefix]

\* C6 witness: three entries, the middle one without an id, the outer two kept
\* in order and in force.
C6_Witness ==
    /\ AfterSetConfigOfArray
    /\ Len(lastConf.entries) = 3
    /\ NamesParticipant(lastConf.entries[1])
    /\ ~NamesParticipant(lastConf.entries[2])
    /\ NamesParticipant(lastConf.entries[3])
    /\ lastConf.entries[1].bidder # lastConf.entries[3].bidder
    /\ Len(cfg.entries) = 2
    /\ cfg.entries[1].bidder = lastConf.entries[1].bidder
    /\ cfg.entries[2].bidder = lastConf.entries[3].bidder
    /\ hasMultibid

\* C7 (the claim as stated): after a setConfig call in which every entry is
\* dropped, the store is inactive and holds no limit.
C7_AllDroppedDeactivates ==
    (/\ AfterSetConfigOfArray
     /\ Len(lastConf.entries) > 0
     /\ \A i \in 1..Len(lastConf.entries) : ~NamesParticipant(lastConf.entries[i]))
        => (~hasMultibid /\ multiConfig = EmptyMultiConfig)

\* ------------------------------------------------- claims on BidAdmission

\* The (ad unit, bidder) keys of the bids that have arrived.
ArrivedKeys == { <<bids[i].adUnitCode, bids[i].bidder>> : i \in 1..Len(bids) }

\* The bids of a key that arrived in the current round and are not adpod bids,
\* in arrival order.
RoundBids(key) ==
    SelectSeq([i \in 1..Len(bids) |-> i],
              LAMBDA i : /\ i > roundStart
                         /\ bids[i].adUnitCode = key[1]
                         /\ bids[i].bidder = key[2]
                         /\ ~bids[i].adpod)

Forwarded(i) == \E p \in 1..Len(bidsReceived) : bidsReceived[p] = i

\* The key's bidder has a limit in force and the configuration has not been
\* set since the first bid of the round.
LimitedInRound(key) == cleanRound /\ hasMultibid /\ key[2] \in DOMAIN multiConfig

\* C1: for a bidder with limit N whose bids of the round for one ad unit carry
\* no floor, with no reset or setConfig in between, the first N bids in arrival
\* order are forwarded and every later one is filtered because the maximum was
\* reached.
C1_FirstNAdmitted ==
    \A key \in ArrivedKeys :
        LET rb == RoundBids(key)
        IN  (/\ LimitedInRound(key)
             /\ \A j \in 1..Len(rb) : bids[rb[j]].floorValue = 0)
                => \A j \in 1..Len(rb) :
                       IF j <= multiConfig[key[2]].maxbids
                       THEN Forwarded(rb[j]) /\ bids[rb[j]].reason = ""
                       ELSE ~Forwarded(rb[j]) /\ bids[rb[j]].reason = "max limit reached"

\* C1 witness: limit 2, three floorless bids of one key in one round, the third
\* filtered.
C1_Witness ==
    \E key \in ArrivedKeys :
        LET rb == RoundBids(key)
        IN  /\ LimitedInRound(key)
            /\ multiConfig[key[2]].maxbids = 2
            /\ Len(rb) = 3
            /\ \A j \in 1..3 : bids[rb[j]].floorValue = 0
            /\ ~Forwarded(rb[3])

\* C2 (the claim as stated): when the first bid of a key in the round carried
\* floor data F, a later bid of the key below F is not forwarded, and a later
\* bid at or above F is forwarded while fewer than maxbids bids of the key were
\* forwarded before it.
C2_RecordedFloorApplies ==
    \A key \in ArrivedKeys :
        LET rb == RoundBids(key)
        IN  (LimitedInRound(key) /\ Len(rb) > 0 /\ bids[rb[1]].floorValue > 0)
                => \A j \in 2..Len(rb) :
                       LET F == bids[rb[1]].floorValue
                           before == Cardinality({k \in 1..(j - 1) : Forwarded(rb[k])})
                       IN  /\ bids[rb[j]].cpm < F => ~Forwarded(rb[j])
                           /\ (bids[rb[j]].cpm >= F /\ before < multiConfig[key[2]].maxbids)
                                  => Forwarded(rb[j])

\* C8: right after resetMultibidUnits no key has stored bids or maxReached;
\* the stored bids of a key are bids of the current round only, so that the
\* first bid of a limited key in a round is forwarded whatever happened in the
\* rounds before; resetting what has been reset, or the empty state, changes
\* nothing.
C8_ResetClearsUnits ==
    /\ roundStart = Len(bids) => multibidUnits = EmptyUnits
    /\ \A key \in DOMAIN multibidUnits :
           \A p \in 1..Len(multibidUnits[key].ads) : multibidUnits[key].ads[p] > roundStart
    /\ \A key \in ArrivedKeys :
           (LimitedInRound(key) /\ Len(RoundBids(key)) > 0) => Forwarded(RoundBids(key)[1])
    /\ resetMultibidUnits(resetMultibidUnits(multibidUnits)) = resetMultibidUnits(multibidUnits)
    /\ resetMultibidUnits(EmptyUnits) = EmptyUnits

\* C8 witness: a key whose limit was reached in an earlier round, a bid of it
\* filtered there, and a bid of it forwarded in the current round.
C8_Witness ==
    \E key \in ArrivedKeys :
        /\ LimitedInRound(key)
        /\ \E i \in 1..roundStart :
               /\ bids[i].adUnitCode = key[1]
               /\ bids[i].bidder = key[2]
               /\ bids[i].reason = "max limit reached"
        /\ Len(RoundBids(key)) > 0
        /\ Forwarded(RoundBids(key)[1])
        /\ key \in DOMAIN multibidUnits
        /\ multibidUnits[key].maxReached

\* --------------------------------------------------- claims on PoolRanker

\* The ad unit codes of the pool.
PoolSlots == { bids[bidsReceived[p]].adUnitCode : p \in 1..Len(bidsReceived) }

\* The pool's bids of one ad unit and one originalBidder, in pool order.
Partition(slot, ob) ==
    SelectSeq(bidsReceived, LAMBDA i : /\ bids[i].adUnitCode = slot
                                       /\ bids[i].originalBidder = ob)

\* The 1-based place of part[p] when part is put in descending cpm order, bids
\* of equal cpm staying in pool order.
ValueRank(part, p) ==
    1 + Cardinality({q \in 1..Len(part) :
                        \/ bids[part[q]].cpm > bids[part[p]].cpm
                        \/ bids[part[q]].cpm = bids[part[p]].cpm /\ q < p})

\* targetBidPoolHook has run over the pool, which held no alias before, with
\* multibid active.
RankedOnce == ranked.called /\ ranked.hasModified /\ ranked.fresh

\* C3: after one run of targetBidPoolHook, in every (ad unit, originalBidder)
\* partition of a bidder with a prefix, the bid of highest cpm carries the
\* bidder's own code and the bid at descending-cpm rank k, 2 <= k <= maxbids,
\* carries prefix + k.
C3_AliasByValueRank ==
    RankedOnce =>
        \A slot \in PoolSlots : \A ob \in DOMAIN multiConfig :
            multiConfig[ob].prefix # "" =>
                LET part == Partition(slot, ob)
                IN  \A p \in 1..Len(part) :
                        LET k == ValueRank(part, p)
                        IN  /\ k = 1 => bids[part[p]].bidderCode = ob
                            /\ (2 <= k /\ k <= multiConfig[ob].maxbids)
                                   => bids[part[p]].bidderCode
                                          = multiConfig[ob].prefix \o ToString(k)

\* C3 witness: a partition of three bids ranked, carrying A, P2 and P3 along
\* the descending cpm order, the bid that arrived first not being the highest.
C3_Witness ==
    /\ RankedOnce
    /\ "A" \in DOMAIN multiConfig
    /\ multiConfig["A"].prefix = "P"
    /\ LET part == Partition("s1", "A")
       IN  /\ Len(part) = 3
           /\ ValueRank(part, 1) > 1
           /\ { <<ValueRank(part, p), bids[part[p]].bidderCode>> : p \in 1..3 }
                  = { <<1, "A">>, <<2, "P2">>, <<3, "P3">> }

Aliased(i) == bids[i].bidder # bids[i].bidderCode

\* The winners and the kept bids of one ad unit, in the order they were given.
WinnersOf(slot) == SelectSeq(ranked.winners, LAMBDA i : bids[i].adUnitCode = slot)

KeptOf(slot) == SelectSeq(ranked.out, LAMBDA i : bids[i].adUnitCode = slot)

IsKept(i) == \E p \in 1..Len(ranked.out) : ranked.out[p] = i

\* targetBidPoolHook has run with multibid active and a per-ad-unit limit.
RankedWithLimit == ranked.called /\ ranked.hasModified /\ ranked.limit > 0

\* The number of kept bids of every ad unit is the limit, or the number of its
\* winners when that is smaller.
KeptCount ==
    \A slot \in PoolSlots :
        Len(KeptOf(slot)) = IF ranked.limit < Len(WinnersOf(slot))
                            THEN ranked.limit ELSE Len(WinnersOf(slot))

\* x does not come after y when cpm descending is the first key and non-aliased
\* before aliased decides among equal cpm.
NotAfterByValue(x, y) ==
    \/ bids[x].cpm > bids[y].cpm
    \/ bids[x].cpm = bids[y].cpm /\ (Aliased(x) => Aliased(y))

\* x does not come after y when non-aliased before aliased is the first key and
\* cpm descending decides within each of the two classes.
NotAfterByAlias(x, y) ==
    \/ ~Aliased(x) /\ Aliased(y)
    \/ Aliased(x) = Aliased(y) /\ bids[x].cpm >= bids[y].cpm

\* C4 (the claim as stated): with a limit L > 0 the kept bids of an ad unit are
\* the first L winners by cpm descending, non-aliased before aliased deciding
\* among equal cpm only.
C4_ValueFirst ==
    RankedWithLimit =>
        /\ KeptCount
        /\ \A slot \in PoolSlots :
               LET kept == KeptOf(slot)
                   win == WinnersOf(slot)
               IN  /\ \A p \in 1..Len(kept) : \A q \in 1..Len(win) :
                          ~IsKept(win[q]) => NotAfterByValue(kept[p], win[q])
                   /\ \A p, q \in 1..Len(kept) : p < q => NotAfterByValue(kept[p], kept[q])

\* C4 (amended): with a limit L > 0 the kept bids of an ad unit are the first L
\* winners when every non-aliased winner comes before every aliased one and
\* cpm descending orders each of the two classes.
C4_NonAliasedFirst ==
    RankedWithLimit =>
        /\ KeptCount
        /\ \A slot \in PoolSlots :
               LET kept == KeptOf(slot)
                   win == WinnersOf(slot)
               IN  /\ \A p \in 1..Len(kept) : \A q \in 1..Len(win) :
                          ~IsKept(win[q]) => NotAfterByAlias(kept[p], win[q])
                   /\ \A p, q \in 1..Len(kept) : p < q => NotAfterByAlias(kept[p], kept[q])

\* C4 witness: limit 2, three winners in one ad unit, a non-aliased winner kept
\* and an aliased winner of higher cpm left out.
C4_Witness ==
    /\ RankedWithLimit
    /\ ranked.limit = 2
    /\ \E slot \in PoolSlots :
           LET kept == KeptOf(slot)
               win == WinnersOf(slot)
           IN  /\ Len(win) = 3
               /\ \E p \in 1..Len(kept) : \E q \in 1..Len(win) :
                      /\ ~IsKept(win[q])
                      /\ Aliased(win[q])
                      /\ ~Aliased(kept[p])
                      /\ bids[win[q]].cpm > bids[kept[p]].cpm

\* Limit 2 and prefix P for bidder A are in force and three bids of A with cpm
\* 1, 3, 2 have arrived in that order for ad unit s1.
ArrivalScenario ==
    /\ hasMultibid
    /\ multiConfig = [k \in {"A"} |-> [maxbids |-> 2, prefix |-> "P"]]
    /\ Len(bids) = 3
    /\ \A i \in 1..3 : bids[i].adUnitCode = "s1" /\ bids[i].bidder = "A"
    /\ <<bids[1].cpm, bids[2].cpm, bids[3].cpm>> = <<1, 3, 2>>

\* C9: which bids of a limited key are forwarded depends on arrival order
\* alone (the first maxbids of them, whatever their cpm), and which forwarded
\* bid keeps the bidder's own code after ranking depends on cpm alone (none of
\* higher cpm, none of equal cpm before it in the pool); for bids of cpm 1, 3, 2
\* in that order with limit 2 and prefix P, bids 1 and 2 are forwarded, bid 3
\* is filtered as over the limit, and ranking leaves A on the bid of cpm 3 and
\* puts P2 on the bid of cpm 1.
C9_ArrivalThenValue ==
    /\ \A key \in ArrivedKeys :
           LimitedInRound(key) =>
               LET rb == RoundBids(key)
                   part == Partition(key[1], key[2])
               IN  /\ \A j \in 1..Len(rb) :
                          Forwarded(rb[j]) <=> j <= multiConfig[key[2]].maxbids
                   /\ (RankedOnce /\ multiConfig[key[2]].prefix # "") =>
                          \A p \in 1..Len(part) :
                              ~Aliased(part[p]) <=>
                                  \A q \in 1..Len(part) :
                                      /\ bids[part[q]].cpm <= bids[part[p]].cpm
                                      /\ bids[part[q]].cpm = bids[part[p]].cpm => p <= q
    /\ ArrivalScenario =>
           /\ bidsReceived = <<1, 2>>
           /\ bids[3].reason = "max limit reached"
           /\ ranked.called => bids[2].bidderCode = "A" /\ bids[1].bidderCode = "P2"

\* C9 witness: the scenario of the claim, after ranking.
C9_Witness ==
    /\ ArrivalScenario
    /\ ranked.called
    /\ ~Forwarded(3)
    /\ bids[3].cpm > bids[1].cpm
    /\ Aliased(1)

\* targetBidPoolHook has run with multibid active.
RankedActive == ranked.called /\ ranked.hasModified

\* The pool's bids of one ad unit that carry one bidderCode after ranking.
SameIdentity(slot, code) ==
    { bidsReceived[p] : p \in { q \in 1..Len(bidsReceived) :
                                   /\ bids[bidsReceived[q]].adUnitCode = slot
                                   /\ bids[bidsReceived[q]].bidderCode = code } }

\* C10: after targetBidPoolHook, with highestCpmCallback as the reduction, the
\* bids handed on hold at most one bid per ad unit and bidderCode, and it has
\* the highest cpm of the pool's bids of that ad unit and bidderCode; a limited
\* bidder without prefix has exactly one winner per ad unit it bid for, its
\* forwarded bid of highest cpm.
C10_OneWinnerPerIdentity ==
    RankedActive =>
        /\ \A p, q \in 1..Len(ranked.out) :
               (/\ bids[ranked.out[p]].adUnitCode = bids[ranked.out[q]].adUnitCode
                /\ bids[ranked.out[p]].bidderCode = bids[ranked.out[q]].bidderCode) => p = q
        /\ \A p \in 1..Len(ranked.out) :
               LET w == ranked.out[p]
               IN  /\ Forwarded(w)
                   /\ \A i \in SameIdentity(bids[w].adUnitCode, bids[w].bidderCode) :
                          bids[i].cpm <= bids[w].cpm
        /\ \A slot \in PoolSlots : \A ob \in DOMAIN multiConfig :
               (multiConfig[ob].prefix = "" /\ Len(Partition(slot, ob)) > 0) =>
                   LET mine == SelectSeq(WinnersOf(slot),
                                         LAMBDA i : bids[i].originalBidder = ob)
                       part == Partition(slot, ob)
                   IN  /\ Len(mine) = 1
                       /\ \A p \in 1..Len(part) : bids[part[p]].cpm <= bids[mine[1]].cpm
                       /\ ranked.limit = 0 => Len(SelectSeq(KeptOf(slot),
                                                  LAMBDA i : bids[i].originalBidder = ob)) = 1

\* C10 witness: a bidder without prefix with three forwarded bids in one ad
\* unit, the first of them not the highest, and one winner for that ad unit.
C10_Witness ==
    /\ RankedActive
    /\ "A" \in DOMAIN multiConfig
    /\ multiConfig["A"].prefix = ""
    /\ LET part == Partition("s1", "A")
       IN  /\ Len(part) = 3
           /\ \E p \in 2..3 : bids[part[p]].cpm > bids[part[1]].cpm
    /\ Len(WinnersOf("s1")) = 1
    /\ ranked.out = ranked.winners

\* ------------------------------------- claims on BidAdmission, continued

\* The bids of rb that were forwarded, in arrival order.
ForwardedOf(rb) == SelectSeq(rb, LAMBDA i : Forwarded(i))

\* The bid's own floor test: it carries no floor or its cpm reaches its floor.
OwnFloorPassed(i) == bids[i].floorValue = 0 \/ bids[i].floorValue <= bids[i].cpm

\* C11: a filtered bid (maximum reached or below floor) is never forwarded and
\* leaves no trace in the stored units: for a limited key the stored bids are
\* exactly the forwarded bids of the round and maxReached says that their
\* number is the limit; bids that arrive after a filtered one are handled as
\* usual: a later bid of the key that passes its floor test is forwarded while
\* fewer than maxbids bids of the key were forwarded, whatever was filtered
\* before it.
C11_FilteredBidLeavesNoTrace ==
    /\ \A i \in 1..Len(bids) : bids[i].reason # "" => ~Forwarded(i)
    /\ \A key \in ArrivedKeys :
           LET rb == RoundBids(key)
               fw == ForwardedOf(rb)
           IN  (LimitedInRound(key) /\ Len(rb) > 0) =>
                   /\ key \in DOMAIN multibidUnits
                   /\ multibidUnits[key].ads = fw
                   /\ multibidUnits[key].maxReached = (Len(fw) = multiConfig[key[2]].maxbids)
                   /\ \A j \in 2..Len(rb) :
                          (/\ OwnFloorPassed(rb[j])
                           /\ Len(ForwardedOf(SubSeq(rb, 1, j - 1))) < multiConfig[key[2]].maxbids)
                              => Forwarded(rb[j])

\* C11 witness: a bid filtered as below floor, a later bid of the same key
\* forwarded, the filtered bid not among the stored bids.
C11_Witness ==
    \E key \in ArrivedKeys :
        LET rb == RoundBids(key)
        IN  /\ LimitedInRound(key)
            /\ \E j, k \in 1..Len(rb) :
                   /\ j < k
                   /\ bids[rb[j]].reason = "below floor"
                   /\ Forwarded(rb[k])
                   /\ \A p \in 1..Len(multibidUnits[key].ads) :
                          multibidUnits[key].ads[p] # rb[j]

\* The bid object as it was handed to addBidResponseHook.
AsArrived(b) == NewBid(b.id, b.adUnitCode, b.bidder, b.cpm, b.floorValue, b.adpod)

\* In this step a bid was handed to addBidResponseHook, and the hook handed it
\* on untouched and left multibidUnits alone.
PassedThrough ==
    /\ bids'[Len(bids')] = AsArrived(bids'[Len(bids')])
    /\ bidsReceived' = Append(bidsReceived, Len(bids'))
    /\ multibidUnits' = multibidUnits
    /\ uid' = uid

\* C12: when hasMultibid is false or multiConfig has no entry for the bid's
\* bidder, addBidResponseHook hands the bid on once, with no field changed,
\* and creates or changes no stored unit, however many such bids came before.
C12_UnlimitedBidPassesThrough ==
    [][(/\ Len(bids') = Len(bids) + 1
        /\ ~hasMultibid \/ bids'[Len(bids')].bidder \notin DOMAIN multiConfig)
           => PassedThrough]_vars

\* C12 witness: with a limit in force for A only, three bids of B have arrived
\* and all three are in the pool as they arrived, with no stored unit.
C12_Witness ==
    /\ hasMultibid
    /\ DOMAIN multiConfig = {"A"}
    /\ Len(bids) = 3
    /\ \A i \in 1..3 : bids[i].bidder = "B" /\ bids[i] = AsArrived(bids[i])
    /\ bidsReceived = <<1, 2, 3>>
    /\ multibidUnits = EmptyUnits

\* C13: an adpod bid of a bidder with a limit in force is handed on with no
\* field changed, whatever maxReached and its floor say, and the stored units
\* are left as they are.
C13_AdpodBidPassesThrough ==
    [][(/\ Len(bids') = Len(bids) + 1
        /\ bids'[Len(bids')].adpod
        /\ hasMultibid
        /\ bids'[Len(bids')].bidder \in DOMAIN multiConfig)
           => PassedThrough]_vars

\* C13 witness: an adpod bid with cpm below its floor, forwarded after its key
\* had reached the limit, and not among the stored bids.
C13_Witness ==
    \E i \in 1..Len(bids) :
        LET key == <<bids[i].adUnitCode, bids[i].bidder>>
        IN  /\ bids[i].adpod
            /\ bids[i].cpm < bids[i].floorValue
            /\ Forwarded(i)
            /\ bids[i] = AsArrived(bids[i])
            /\ LimitedInRound(key)
            /\ key \in DOMAIN multibidUnits
            /\ multibidUnits[key].maxReached
            /\ \A p \in 1..Len(multibidUnits[key].ads) : multibidUnits[key].ads[p] < i

\* ----------------------------------------------- claims on RequestLimiter

\* C14: adjustBidderRequestsHook hands on the list it was given, request by
\* request in the same order; a request whose bidder has a stored limit
\* carries bidLimit = that limit, every other request is as it was given; when
\* hasMultibid is false no request is annotated.
C14_RequestsAnnotated ==
    bidderRequests.called =>
        LET given == bidderRequests.given
            handed == bidderRequests.handed
            limits == bidderRequests.limits
        IN  /\ Len(handed) = Len(given)
            /\ \A p \in 1..Len(given) :
                   /\ handed[p].bidderCode = given[p].bidderCode
                   /\ handed[p].bidLimit =
                          IF given[p].bidderCode \in DOMAIN limits
                          THEN limits[given[p].bidderCode].maxbids
                          ELSE given[p].bidLimit
            /\ ~bidderRequests.active => handed = given

\* C14 witness: requests to C and B with a limit of 9 stored for B only: the
\* request to C is handed on as given, the request to B with bidLimit 9.
C14_Witness ==
    /\ bidderRequests.called
    /\ bidderRequests.active
    /\ Len(bidderRequests.given) = 2
    /\ bidderRequests.given[1].bidderCode = "C"
    /\ bidderRequests.given[2].bidderCode = "B"
    /\ bidderRequests.handed[1] = bidderRequests.given[1]
    /\ bidderRequests.handed[2].bidLimit = 9

\* ---------------------------------------------------- claims on Analytics

\* AUCTION_INIT, BID_REQUESTED and AUCTION_END of one auction were emitted,
\* and nothing else.
OneAuctionEmitted ==
    emitted = <<AuctionInitEvent("a1", <<"u1">>), BidLevelEvent("bidRequested", "a1"),
                AuctionEndEvent("a1")>>

\* One batch was sent, with the keys data and adUnitCodes, and its data is
\* the BID_REQUESTED event alone.
OneBatchOfBidLevelEvents(reqs) ==
    /\ Len(reqs) = 1
    /\ reqs[1].keys = {"data", "adUnitCodes"}
    /\ reqs[1].data = <<BidLevelEvent("bidRequested", "a1")>>

\* C15 (the claim as stated): after AUCTION_INIT, BID_REQUESTED, AUCTION_END of
\* one auction each of the two adapters has sent exactly one batch, with the
\* keys data and adUnitCodes, whose data holds the BID_REQUESTED event only.
C15_OneBatchOfBidLevelEvents ==
    OneAuctionEmitted =>
        /\ OneBatchOfBidLevelEvents(requests)
        /\ OneBatchOfBidLevelEvents(moduleRequests)

\* ------------------------------------- claims on BidAdmission, the first bid

\* C16 (the claim as stated): the first bid of a limited key in a round that
\* carries a floor above its cpm is filtered: it is not forwarded and it is not
\* among the stored bids of the key.
C16_FirstBidBelowFloorFiltered ==
    \A key \in ArrivedKeys :
        LET rb == RoundBids(key)
        IN  (/\ LimitedInRound(key)
             /\ Len(rb) > 0
             /\ bids[rb[1]].floorValue > bids[rb[1]].cpm)
                => /\ ~Forwarded(rb[1])
                   /\ key \in DOMAIN multibidUnits =>
                          \A p \in 1..Len(multibidUnits[key].ads) :
                              multibidUnits[key].ads[p] # rb[1]

\* ------------------------------------ claims on PoolRanker, changing pools

\* targetBidPoolHook has run with multibid active over the pool as it is now.
RankedThisPool == ranked.called /\ ranked.hasModified /\ ranked.pool = bidsReceived

\* C17 (the claim as stated): after every run of targetBidPoolHook, also over
\* a pool that earlier runs have ranked and that bids have been taken out of,
\* the bid of highest cpm of every (ad unit, originalBidder) partition carries
\* its originalBidder as bidderCode.
C17_HighestCarriesOriginal ==
    RankedThisPool =>
        \A slot \in PoolSlots : \A ob \in DOMAIN multiConfig :
            LET part == Partition(slot, ob)
            IN  \A p \in 1..Len(part) :
                    ValueRank(part, p) = 1 => bids[part[p]].bidderCode = ob

\* The pool's bids of one ad unit that came from one bidder, in pool order.
BidsOfBidder(slot, bidder) ==
    SelectSeq(bidsReceived, LAMBDA i : bids[i].adUnitCode = slot /\ bids[i].bidder = bidder)

\* C20 (the claim as stated): after a run of targetBidPoolHook over a pool
\* that held no alias, a bid without originalBidder whose cpm is above that of
\* every other bid of its bidder in its ad unit (or that is the only one)
\* carries its bidder's code, whatever bids of other bidders are in the ad unit.
C20_UnmarkedBidRankedAmongItsBidder ==
    (RankedThisPool /\ ranked.fresh) =>
        \A slot \in PoolSlots : \A p \in 1..Len(bidsReceived) :
            LET i == bidsReceived[p]
                mine == BidsOfBidder(slot, bids[i].bidder)
            IN  (/\ bids[i].adUnitCode = slot
                 /\ bids[i].originalBidder = ""
                 /\ \A q \in 1..Len(mine) : mine[q] # i => bids[mine[q]].cpm < bids[i].cpm)
                    => bids[i].bidderCode = bids[i].bidder

\* --------------------------------------------- claims on AuctionLifecycle

\* The forwarded bids of one auction for one key, over all rounds.
ForwardedOfAuction(a, key) ==
    { i \in 1..Len(bids) : /\ auctionIds[i] = a
                           /\ bids[i].adUnitCode = key[1]
                           /\ bids[i].bidder = key[2]
                           /\ Forwarded(i) }

\* C18: the reset on AUCTION_INIT is not scoped by auction: whether a bid of a
\* limited key is forwarded depends on its place among the bids of the key
\* since the last AUCTION_INIT alone, whichever auction the bid belongs to; the
\* first maxbids bids after a reset are forwarded also when they belong to an
\* auction that was started before the reset.
C18_ResetNotScopedByAuction ==
    \A key \in ArrivedKeys :
        LET rb == RoundBids(key)
        IN  LimitedInRound(key) =>
                \A j \in 1..Len(rb) : \A a \in 1..auctionCount :
                    auctionIds[rb[j]] = a =>
                        (Forwarded(rb[j]) <=> j <= multiConfig[key[2]].maxbids)

\* C18 witness: the first auction had reached the limit for a key and had a
\* bid filtered; a second auction started; a further bid of the first auction
\* was forwarded, so that more than maxbids bids of that auction and key are
\* in the pool.
C18_Witness ==
    \E key \in ArrivedKeys :
        /\ LimitedInRound(key)
        /\ auctionCount = 2
        /\ \E i \in 1..roundStart :
               /\ auctionIds[i] = 1
               /\ bids[i].adUnitCode = key[1]
               /\ bids[i].bidder = key[2]
               /\ bids[i].reason = "max limit reached"
        /\ \E i \in (roundStart + 1)..Len(bids) : i \in ForwardedOfAuction(1, key)
        /\ Cardinality(ForwardedOfAuction(1, key)) > multiConfig[key[2]].maxbids

\* ------------------------------------- claims on BidAdmission, interleaving

\* What the first n bids of one key leave behind, computed from these bids
\* alone: rb are the key's bids of the round in arrival order, N the limit.
RECURSIVE KeyReplay(_, _, _)
KeyReplay(rb, n, N) ==
    IF n = 0 THEN [ads |-> << >>, maxReached |-> FALSE]
    ELSE LET prev == KeyReplay(rb, n - 1, N)
             take == [ads |-> Append(prev.ads, rb[n]),
                      maxReached |-> prev.maxReached \/ Len(prev.ads) + 1 = N]
         IN  IF n = 1 THEN take
             ELSE IF ~prev.maxReached /\ OwnFloorPassed(rb[n]) THEN take
             ELSE prev

\* C19: what happens to a bid of a limited key is decided by the earlier bids
\* of the same key alone: in every interleaving with bids of other keys the
\* forwarded bids, the filtered bids and their reasons, and the stored unit of
\* the key are those that the key's own bids, in their order, give; a key
\* without limit has every bid forwarded and no stored unit.
C19_DecidedPerKey ==
    \A key \in ArrivedKeys :
        LET rb == RoundBids(key)
        IN  /\ (LimitedInRound(key) /\ Len(rb) > 0) =>
                   LET N == multiConfig[key[2]].maxbids
                       final == KeyReplay(rb, Len(rb), N)
                   IN  /\ ForwardedOf(rb) = final.ads
                       /\ key \in DOMAIN multibidUnits
                       /\ multibidUnits[key].ads = final.ads
                       /\ multibidUnits[key].maxReached = final.maxReached
                       /\ \A n \in 2..Len(rb) :
                              bids[rb[n]].reason =
                                  IF Forwarded(rb[n]) THEN ""
                                  ELSE IF KeyReplay(rb, n - 1, N).maxReached
                                       THEN "max limit reached" ELSE "below floor"
            /\ (cleanRound /\ ~(hasMultibid /\ key[2] \in DOMAIN multiConfig)) =>
                   /\ ForwardedOf(rb) = rb
                   /\ key \notin DOMAIN multibidUnits

\* C19 witness: bids of two limited keys interleaved, the second bid of the
\* first key filtered after a bid of the other key was forwarded in between.
C19_Witness ==
    \E k1, k2 \in ArrivedKeys :
        /\ k1 # k2
        /\ LimitedInRound(k1)
        /\ LimitedInRound(k2)
        /\ Len(RoundBids(k1)) = 2
        /\ Len(RoundBids(k2)) = 1
        /\ RoundBids(k1)[1] < RoundBids(k2)[1]
        /\ RoundBids(k2)[1] < RoundBids(k1)[2]
        /\ Forwarded(RoundBids(k2)[1])
        /\ ~Forwarded(RoundBids(k1)[2])

\* ------------------------------------ claims on PoolRanker, several ad units

\* The bids of the ranked pool that belong to one ad unit.
PoolOf(slot) == SelectSeq(ranked.pool, LAMBDA i : bids[i].adUnitCode = slot)

\* The effective bidder codes that the ranked pool holds for one ad unit.
CodesOf(slot) == { bids[PoolOf(slot)[p]].bidderCode : p \in 1..Len(PoolOf(slot)) }

\* The places of the list handed to the host that hold a bid of one ad unit.
PlacesOf(slot) == { p \in 1..Len(ranked.out) : bids[ranked.out[p]].adUnitCode = slot }

\* C21: for a pool of several ad units the list handed to the host holds no
\* bid twice and only bids of the pool; without limit it holds, for every ad
\* unit, exactly one bid for each effective bidder code of that ad unit (the
\* ad unit's winners, none lost); with a limit L > 0 every ad unit contributes
\* L bids of distinct codes, or all its winners when they are fewer.
C21_SlotsMergedOnce ==
    (ranked.called /\ ranked.hasModified) =>
        /\ \A p, q \in 1..Len(ranked.out) : ranked.out[p] = ranked.out[q] => p = q
        /\ \A p \in 1..Len(ranked.out) :
               \E q \in 1..Len(ranked.pool) : ranked.pool[q] = ranked.out[p]
        /\ \A slot \in { bids[ranked.pool[q]].adUnitCode : q \in 1..Len(ranked.pool) } :
               /\ \A p, q \in PlacesOf(slot) :
                      bids[ranked.out[p]].bidderCode = bids[ranked.out[q]].bidderCode => p = q
               /\ Cardinality(PlacesOf(slot)) =
                      IF ranked.limit > 0 /\ ranked.limit < Cardinality(CodesOf(slot))
                      THEN ranked.limit ELSE Cardinality(CodesOf(slot))

\* C21 witness: a pool of two ad units ranked with a limit of 1, the first ad
\* unit having two winners (A and P2) of which one is cut, the second ad unit
\* giving its one bid, after the first ad unit's in the list.
C21_Witness ==
    /\ ranked.called
    /\ ranked.hasModified
    /\ ranked.limit = 1
    /\ Cardinality({ bids[ranked.pool[q]].adUnitCode : q \in 1..Len(ranked.pool) }) = 2
    /\ CodesOf("s1") = {"A", "P2"}
    /\ Len(ranked.out) = 2
    /\ bids[ranked.out[1]].adUnitCode = "s1"
    /\ bids[ranked.out[2]].adUnitCode # "s1"

\* A pool of three ad units ranked without limit: three bids handed on.
ThreeSlotsRanked ==
    /\ ranked.called
    /\ ranked.hasModified
    /\ Cardinality({ bids[ranked.pool[q]].adUnitCode : q \in 1..Len(ranked.pool) }) = 3
    /\ Len(ranked.out) = 3

\* ------------------------------------ claims on BidAdmission, the identifiers

\* The forwarded bids of the round that went through the branch of lines
\* 154-184: bids of a bidder with a limit that are not adpod bids.
AdmittedByMultibid ==
    { i \in 1..Len(bids) :
          /\ Forwarded(i)
          /\ LimitedInRound(<<bids[i].adUnitCode, bids[i].bidder>>)
          /\ \E n \in 1..Len(RoundBids(<<bids[i].adUnitCode, bids[i].bidder>>)) :
                 RoundBids(<<bids[i].adUnitCode, bids[i].bidder>>)[n] = i }

\* C22 (the claim as stated): every bid admitted through the multibid branch,
\* the first of its ad unit and bidder included, has originalBidder set to its
\* bidder, originalRequestId equal to the requestId it arrived with, and a
\* requestId that differs from that one and from the requestId of every other
\* admitted bid.
C22_AdmittedBidReidentified ==
    \A i \in AdmittedByMultibid :
        /\ bids[i].originalBidder = bids[i].bidder
        /\ bids[i].originalRequestId = AsArrived(bids[i]).requestId
        /\ bids[i].requestId # bids[i].originalRequestId
        /\ \A j \in AdmittedByMultibid : j # i => bids[j].requestId # bids[i].requestId

\* What the code does give: originalBidder on every admitted bid, and the new
\* requestId with originalRequestId on every admitted bid but the first of its
\* ad unit and bidder, which keeps the requestId it arrived with.
AdmittedBidReidentifiedButFirst ==
    \A i \in AdmittedByMultibid :
        LET rb == RoundBids(<<bids[i].adUnitCode, bids[i].bidder>>)
        IN  /\ bids[i].originalBidder = bids[i].bidder
            /\ IF rb[1] = i
               THEN /\ bids[i].originalRequestId = ""
                    /\ bids[i].requestId = AsArrived(bids[i]).requestId
               ELSE /\ bids[i].originalRequestId = AsArrived(bids[i]).requestId
                    /\ bids[i].requestId # bids[i].originalRequestId
                    /\ \A j \in AdmittedByMultibid :
                           j # i => bids[j].requestId # bids[i].requestId

\* ------------------------------------ claims on Analytics, several auctions

\* What the emitted events ask the per-auction adapter to queue, in arrival
\* order: BID_REQUESTED and BID_RESPONSE events and the elements of BID_TIMEOUT
\* events, each with an auctionId.
RECURSIVE QueuedItems(_)
QueuedItems(evs) ==
    IF evs = << >> THEN << >>
    ELSE LET ev == Head(evs)
             items ==
                 IF ev.eventType \in {"bidRequested", "bidResponse"}
                 THEN IF ev.args.auctionId # "" THEN <<ev>> ELSE << >>
                 ELSE IF ev.eventType = "bidTimeout"
                 THEN [p \in 1..Len(ev.args.timeouts) |->
                          Event("bidTimeout", ev.args.timeouts[p], FALSE, << >>, << >>, "")]
                 ELSE << >>
         IN  items \o QueuedItems(Tail(evs))

ItemsOf(auctionId) ==
    SelectSeq(QueuedItems(emitted), LAMBDA d : d.args.auctionId = auctionId)

\* The batches of queued events that were sent (the others are BID_WON posts).
IsBatch(body) == Len(body.data) > 0 /\ body.data[1].eventType # "bidWon"

\* The events sent for one auction, batch after batch.
SentOf(auctionId) ==
    LET batches == SelectSeq(requests,
                       LAMBDA b : IsBatch(b) /\ b.data[1].args.auctionId = auctionId)
    IN  Flatten([p \in 1..Len(batches) |-> batches[p].data])

QueueOf(queue, auctionId) == IF auctionId \in DOMAIN queue THEN queue[auctionId] ELSE << >>

EmittedAuctions == { emitted[p].args.auctionId : p \in 1..Len(emitted) }
                       \cup { d.args.auctionId : d \in
                                 { QueuedItems(emitted)[p] : p \in 1..Len(QueuedItems(emitted)) } }

\* Every event queued for an auction is in one place: the events sent for the
\* auction followed by the events in its queue are the events that arrived for
\* it, in arrival order; a batch holds events of one auction only.
EachEventInOnePlace ==
    /\ \A p \in 1..Len(requests) :
           IsBatch(requests[p]) =>
               \A q \in 1..Len(requests[p].data) :
                   requests[p].data[q].args.auctionId = requests[p].data[1].args.auctionId
    /\ \A x \in EmittedAuctions \cup DOMAIN eventQueue :
           SentOf(x) \o QueueOf(eventQueue, x) = ItemsOf(x)

\* A step in which AUCTION_END of an auction with queued events is handled:
\* one batch is sent, it is the auction's queue, the queue is gone and the
\* other queues are as they were.  In every other step nothing leaves a queue
\* and no batch is sent.
BatchAtAuctionEnd ==
    LET ev == emitted'[Len(emitted')]
        x == ev.args.auctionId
    IN  emitted' # emitted =>
            IF ev.eventType = "auctionEnd" /\ x \in DOMAIN eventQueue
            THEN /\ Len(requests') = Len(requests) + 1
                 /\ SubSeq(requests', 1, Len(requests)) = requests
                 /\ requests'[Len(requests')].data = eventQueue[x]
                 /\ \A q \in 1..Len(eventQueue[x]) : eventQueue[x][q].args.auctionId = x
                 /\ DOMAIN eventQueue' = DOMAIN eventQueue \ {x}
                 /\ \A y \in DOMAIN eventQueue' : eventQueue'[y] = eventQueue[y]
            ELSE /\ \A y \in DOMAIN eventQueue :
                        /\ y \in DOMAIN eventQueue'
                        /\ SubSeq(eventQueue'[y], 1, Len(eventQueue[y])) = eventQueue[y]
                 /\ \A p \in 1..Len(requests') :
                        p > Len(requests) => ~IsBatch(requests'[p])

AdmittedInRound(key) ==
    Cardinality({ i \in 1..Len(bids) :
                      /\ i > roundStart
                      /\ bids[i].adUnitCode = key[1]
                      /\ bids[i].bidder = key[2]
                      /\ ~bids[i].adpod
                      /\ bids[i].originalBidder # ""
                      /\ Forwarded(i) })

\* A step in which a bid arrives for a key that already has as many admitted
\* bids in the round as the maxbids stored for its bidder, or more, does not
\* forward the bid.
NoAdmissionBeyondLimit ==
    Len(bids') = Len(bids) + 1 =>
        LET b == bids'[Len(bids')]
            key == <<b.adUnitCode, b.bidder>>
        IN  (/\ hasMultibid'
             /\ b.bidder \in DOMAIN multiConfig'
             /\ ~b.adpod
             /\ AdmittedInRound(key) >= multiConfig'[b.bidder].maxbids)
                => bidsReceived' = bidsReceived

\* C24 (the claim as stated): no bid is admitted for a key whose number of
\* admitted bids in the round has reached the maxbids stored for its bidder at
\* that moment, whatever setConfig and AUCTION_INIT did before, a setConfig
\* that lowers maxBids between two bids of the round included.
C24_NoAdmissionBeyondLimit == [][NoAdmissionBeyondLimit]_vars

\* The same with the limit unchanged since the first bid of the round.
NoAdmissionBeyondLimitInCleanRound ==
    [][cleanRound' => NoAdmissionBeyondLimit]_vars

\* ------------------------------------ claims on PoolRanker, common prefixes

\* The bids of the ranked pool that were admitted through the multibid branch
\* for a bidder that has a prefix.
AdmittedWithPrefix ==
    { i \in { ranked.pool[q] : q \in 1..Len(ranked.pool) } :
          /\ bids[i].originalBidder \in DOMAIN multiConfig
          /\ multiConfig[bids[i].originalBidder].prefix # "" }

\* targetBidPoolHook has run once with multibid active and without limit.
RankedWithoutLimit == RankedOnce /\ ranked.limit = 0

\* C25 (the claim as stated): without a per-ad-unit limit every admitted bid
\* of a bidder that has a prefix is in the list handed to the host, also when
\* several bidders were configured through one entry and have the prefix in
\* common.
C25_AdmittedWithPrefixKept ==
    RankedWithoutLimit => \A i \in AdmittedWithPrefix : IsKept(i)

\* The same for bidders whose prefixes differ from one another.
AdmittedWithOwnPrefixKept ==
    (/\ RankedWithoutLimit
     /\ \A a, b \in DOMAIN multiConfig : a # b => multiConfig[a].prefix # multiConfig[b].prefix)
        => \A i \in AdmittedWithPrefix : IsKept(i)

\* ------------------------------------------- claims on Analytics, clean-up

\* A step in which AUCTION_END of an auction is handled leaves no queue and no
\* cache entry for that auction.
NothingLeftAtAuctionEnd ==
    emitted' # emitted =>
        LET ev == emitted'[Len(emitted')]
        IN  ev.eventType = "auctionEnd" =>
                /\ ev.args.auctionId \notin DOMAIN eventQueue'
                /\ ev.args.auctionId \notin DOMAIN adUnitCodesCache'

\* C26 (the claim as stated): in the per-auction adapter, once AUCTION_END of
\* an auction has been handled neither eventQueue nor adUnitCodesCache has an
\* entry for it, whatever events came before, an auction with AUCTION_INIT and
\* no queued event included.
C26_NothingLeftAtAuctionEnd == [][NothingLeftAtAuctionEnd]_vars

\* The same for an auction that has queued events when AUCTION_END comes.
NothingLeftAfterBatch ==
    [][(emitted' # emitted /\ emitted'[Len(emitted')].args.auctionId \in DOMAIN eventQueue)
           => NothingLeftAtAuctionEnd]_vars

====
